---- MODULE Spec2Model ----
(***************************************************************************)
(* Wizard Zone server: the game room (tick orchestrator with its inline    *)
(* phase logic), the stand-alone GamePhaseManager, and the combat and      *)
(* health-regeneration systems.                                            *)
(*                                                                         *)
(* Geometry (positions, velocities, look angles) is not represented: the   *)
(* outcome of every geometric test of a tick (who is inside a blast        *)
(* radius, whom a ray meets first, what a projectile overlaps) is drawn    *)
(* nondeterministically, under the filters the code applies around the     *)
(* test (not the caster / owner, not a dead player, first match wins).     *)
(***************************************************************************)
EXTENDS Integers, Sequences, FiniteSets, TLC

\* ------------------------------------------------------------------------
\* Program constants
\* ------------------------------------------------------------------------
MIN_PLAYERS_TO_START == 2
COUNTDOWN_SECONDS == 5
TICK_RATE == 60
NEVER_USED == -100000
SPAWN_HEALTH == 100
MAX_HEALTH == 100
PRIMARY_FIRE_DAMAGE == 25
NOVA_BLAST_DAMAGE == 40
ARCANE_RAY_DAMAGE == 35
PRIMARY_FIRE_COOLDOWN_MS == 500
PRIMARY_FIRE_LIFETIME_MS == 3000
NOVA_BLAST_COOLDOWN_MS == 8000
ARCANE_RAY_COOLDOWN_MS == 6000
DASH_COOLDOWN_MS == 3000
LAUNCH_JUMP_COOLDOWN_MS == 5000
HEALTH_REGEN_DELAY_MS == 8000
HEALTH_REGEN_RATE_PER_SECOND == 5

Min(a, b) == IF a <= b THEN a ELSE b

\* ------------------------------------------------------------------------
\* Bounds of the model
\* ------------------------------------------------------------------------
\* ticks a room may run before the next reset of the tick counter
MaxTick == 1
\* inputs that may be pending in the room, over all players
MaxPending == 1
\* whole seconds a regeneration step may cover: 1..MaxDeltaSeconds
MaxDeltaSeconds == 8
\* players in a player map on which hits and regeneration steps are followed
MaxHealthPlayers == 2
\* the player counts a caller passes to the phase manager: 0..MaxPlayerCount
MaxPlayerCount == 3
\* interval timers the runtime may hold scheduled for one phase manager
MaxTimers == 2
\* resolutions of one player that are followed
MaxResolves == 3
\* ticks a match in which every player attacks is followed
MaxShowdownTick == 2
\* sockets that connect to the server
MaxSockets == 2
\* JOIN_GAME messages the server receives, over all sockets
MaxJoins == 3
\* ticks whose snapshot is broadcast to the connections
MaxBroadcasts == 2
\* firings of countdown timers followed after the start of a countdown
MaxFirings == 7
\* players in a set handed to checkWinCondition
MaxWinPlayers == 3
\* inputs the clients send while the input queues are followed
MaxInputs == 3
\* players whose input queues are followed
MaxInputPlayers == 2
\* the tick of a match by which a player first uses an ability
MaxFirstUse == 2
\* ticks a match is followed past the end of the first cooldown
MaxExtraTicks == 2
\* the ticks at which a newly created player first triggers an ability:
\* 0..MaxNewPlayerTick
MaxNewPlayerTick == 30
\* ticks a match of three is followed while its projectiles fly
MaxCollisionTick == 2
\* the health a player handed to a regeneration step misses:
\* 0..MaxRegenMissing
MaxRegenMissing == 11
\* the seconds a regeneration step covers: 1..MaxRegenDelta
MaxRegenDelta == 2
\* the ticks at which a player handed to a regeneration step was last
\* damaged: 0..MaxLastDamage
MaxLastDamage == 2
\* the ticks of a regeneration step: from one before delayTicks to
\* MaxRegenSlack after it
MaxRegenSlack == 2
\* the lengths past the blast radius at which a target is placed, in units
\* of 1/UNITS_PER_METRE metre: 1..MaxBeyondRadius
MaxBeyondRadius == 1

\* the player ids the connection manager hands out, in the order it does
IdOrder == <<"p1", "p2", "p3">>
PlayerIds == {IdOrder[i] : i \in 1..Len(IdOrder)}
\* the ids of the players of the maps on which hits and regeneration are followed
HealthIds == {IdOrder[i] : i \in 1..Min(MaxHealthPlayers, Len(IdOrder))}
\* the ids of the players of the sets handed to checkWinCondition
WinIdOrder == <<"p1", "p2", "p3", "p4", "p5">>
WinIds == {WinIdOrder[i] : i \in 1..Min(MaxWinPlayers, Len(WinIdOrder))}
\* the ids of the players whose input queues are followed
InputIds == {IdOrder[i] : i \in 1..Min(MaxInputPlayers, Len(IdOrder))}
Abilities == {"dash", "launchJump", "primaryFire", "novaBlast", "arcaneRay"}
\* the action flags the inputs of the room carry (movement and jump only feed
\* the physics, which is not represented; dash and launch-jump are followed
\* with the cooldowns of one player, below)
InputActions == {"primaryFire", "novaBlast", "arcaneRay"}
\* an input is the set of its raised action flags; the inputs sent are the
\* one that raises none and the one that raises all (an ability whose
\* geometric test meets nobody has the effect of the flag alone)
Inputs == {{}, InputActions}

\* null for a player id (no winner, no target)
NULL == "null"
\* null for a timer handle; handles are positive
NO_TIMER == 0

\* ------------------------------------------------------------------------
\* State
\* ------------------------------------------------------------------------
VARIABLES
  \* GameRoom
  phase,                \* GameRoom.phase
  connectedPlayers,     \* GameRoom.connectedPlayers, keys in insertion order
  players,              \* GameRoom.players, values in insertion order
  projectiles,          \* GameRoom.projectiles, values in insertion order
  pendingInputs,        \* GameRoom.pendingInputs, entries in insertion order
  currentTick,          \* GameRoom.currentTick
  countdownSeconds,     \* GameRoom.countdownSeconds
  countdownIntervalId,  \* GameRoom.countdownIntervalId (handle or NULL)
  timers,               \* interval timers scheduled in the runtime (handles)
  sent,                 \* messages the last handler broadcast, in order
  op,                   \* the last handler that ran, with its arguments
  \* GamePhaseManager
  manager,              \* the fields phase, countdownSeconds, countdownIntervalId
  managerTimers,        \* interval timers scheduled in the runtime, each with
                        \* the playerCount its callback closes over
  managerSent,          \* messages the last call broadcast, in order
  managerOp,            \* the last call, with its arguments
  firings,              \* timer firings since the last startCountdown
  gameStarts,           \* onGameStart invocations since the last startCountdown
  \* CombatSystem.applyHit and HealthRegenSystem.update on a player map
  healthPlayers,        \* the player map, values in insertion order
  healthOp,             \* the last operation on it, with its arguments
  \* CombatSystem.checkWinCondition
  winPlayers,           \* the player map handed to checkWinCondition
  winResult,            \* what it returned ("pending" before the call)
  \* GameRoom.handleInput and processInputs on the input queues
  iqPhase,              \* GameRoom.phase
  iqPlayers,            \* GameRoom.players: id, isAlive, lastProcessedInput
  iqPending,            \* GameRoom.pendingInputs, entries in insertion order
  iqReceived,           \* per player id, the number of inputs handleInput
                        \* was given: the client numbers them 1, 2, ...
  iqApplied,            \* per player id, the inputs applyInput was given
  iqOp,                 \* the last handler that ran
  \* GameRoom.tick over the length of a cooldown: a match of two players
  abPhase,              \* GameRoom.phase
  abPlayers,            \* GameRoom.players
  abTick,               \* GameRoom.currentTick
  abAbility,            \* the ability the inputs of the first player raise
  abOp,                 \* the last handler that ran, and what it did
  \* the first trigger of a newly created player
  npTick,               \* currentTick at the trigger
  npAbility,            \* the ability the input raises
  npResult,             \* the player after the trigger and whether its effect
                        \* was produced, in a sequence (empty before the
                        \* trigger)
  \* GameRoom.tick on the projectiles
  pjPhase,              \* GameRoom.phase
  pjPlayers,            \* GameRoom.players
  pjProjectiles,        \* GameRoom.projectiles
  pjTick,               \* GameRoom.currentTick
  pjOp,                 \* the last handler that ran, and for a tick the hits
                        \* it found and the snapshot it broadcast
  \* HealthRegenSystem.update on a player map
  rgPlayers,            \* the player map handed to update
  rgTick,               \* currentTick
  rgDelta,              \* deltaSeconds
  rgResult,             \* the player map after the call, in a sequence (empty
                        \* before the call)
  \* NovaBlastSystem.fireNovaBlast and ArcaneRaySystem.fireArcaneRay on placed players
  gePlayers,            \* the player map handed to the call: each player with
                        \* a position, and the caster with yaw and pitch
  geTick,               \* currentTick
  geResult,             \* what the call returned and the player map it left, in
                        \* a sequence (empty before the call)
  \* ability attempts on one player with its velocity
  atPlayers,            \* the players, with position, yaw, velocity and isGrounded
  atProjectiles,        \* the projectiles in flight
  atSent,               \* the messages broadcast
  atTick,               \* currentTick
  atAbility,            \* the action p1 keeps attempting in this match
  atOp,                 \* the last call: its name, and what an attempt returned
  \* ConnectionManager and the sockets it holds
  cnConnections,        \* connections: the map from player id to connection
  cnWsToPlayer,         \* wsToPlayer: per socket, the player id or null
  cnSockets,            \* per socket: readyState, whether what is sent is lost,
                        \* and the events the socket has yet to emit
  cnInbox,              \* per socket: the messages delivered to the client
  cnRoster,             \* gameRoom.connectedPlayers
  cnJoined,             \* player ids handed out so far
  cnTick,               \* gameRoom.currentTick
  cnOp,                 \* the last call: its name and what it did
  \* one player resolved against the arena again and again
  laSystem,             \* "arena" for resolveCollisions, "physics" for updatePlayer
  laPosition,           \* player.position
  laVelocity,           \* player.velocity
  laGrounded,           \* player.isGrounded
  laCount,              \* resolutions so far
  \* GameRoom: the game loop
  running,              \* GameRoom.running
  intervalId            \* GameRoom.intervalId, the handle of the tick interval

roomVars == <<phase, connectedPlayers, players, projectiles, pendingInputs,
              currentTick, countdownSeconds, countdownIntervalId, timers,
              sent, op>>

managerVars == <<manager, managerTimers, managerSent, managerOp, firings,
                 gameStarts>>

healthVars == <<healthPlayers, healthOp>>

winVars == <<winPlayers, winResult>>

inputVars == <<iqPhase, iqPlayers, iqPending, iqReceived, iqApplied, iqOp>>

abilityVars == <<abPhase, abPlayers, abTick, abAbility, abOp>>

newPlayerVars == <<npTick, npAbility, npResult>>

projectileVars == <<pjPhase, pjPlayers, pjProjectiles, pjTick, pjOp>>

regenVars == <<rgPlayers, rgTick, rgDelta, rgResult>>

geometryVars == <<gePlayers, geTick, geResult>>

attemptVars == <<atPlayers, atProjectiles, atSent, atTick, atAbility, atOp>>

transportVars == <<cnConnections, cnWsToPlayer, cnSockets, cnInbox, cnRoster, cnJoined, cnTick, cnOp>>

landingVars == <<laSystem, laPosition, laVelocity, laGrounded, laCount>>

loopVars == <<running, intervalId>>

vars == <<roomVars, managerVars, healthVars, winVars, inputVars, abilityVars,
          newPlayerVars, projectileVars, regenVars,
          geometryVars,
          attemptVars,
          transportVars,
          landingVars,
          loopVars>>

\* what the handlers of one object leave alone: the fields of the others
notRoom ==
  <<managerVars, healthVars, winVars, inputVars,
    abilityVars, newPlayerVars, projectileVars, regenVars,
    geometryVars,
    attemptVars,
    transportVars,
    landingVars,
    loopVars>>

notManager ==
  <<roomVars, healthVars, winVars, inputVars,
    abilityVars, newPlayerVars, projectileVars, regenVars,
    geometryVars,
    attemptVars,
    transportVars,
    landingVars,
    loopVars>>

notHealth ==
  <<roomVars, managerVars, winVars, inputVars,
    abilityVars, newPlayerVars, projectileVars, regenVars,
    geometryVars,
    attemptVars,
    transportVars,
    landingVars,
    loopVars>>

notWin ==
  <<roomVars, managerVars, healthVars, inputVars,
    abilityVars, newPlayerVars, projectileVars, regenVars,
    geometryVars,
    attemptVars,
    transportVars,
    landingVars,
    loopVars>>

notInput ==
  <<roomVars, managerVars, healthVars, winVars,
    abilityVars, newPlayerVars, projectileVars, regenVars,
    geometryVars,
    attemptVars,
    transportVars,
    landingVars,
    loopVars>>

notNewPlayer ==
  <<roomVars, managerVars, healthVars, winVars, inputVars, abilityVars,
    projectileVars, regenVars,
    geometryVars,
    attemptVars,
    transportVars,
    landingVars,
    loopVars>>

notAbility ==
  <<roomVars, managerVars, healthVars, winVars,
    inputVars, newPlayerVars, projectileVars, regenVars,
    geometryVars,
    attemptVars,
    transportVars,
    landingVars,
    loopVars>>

notProjectile ==
  <<roomVars, managerVars, healthVars, winVars, inputVars, abilityVars,
    newPlayerVars, regenVars,
    geometryVars,
    attemptVars,
    transportVars,
    landingVars,
    loopVars>>

notRegen ==
  <<roomVars, managerVars, healthVars, winVars, inputVars, abilityVars,
    newPlayerVars, projectileVars,
    geometryVars,
    attemptVars,
    transportVars,
    landingVars,
    loopVars>>

notGeometry ==
  <<roomVars, managerVars, healthVars, winVars, inputVars, abilityVars,
    newPlayerVars, projectileVars, regenVars,
    attemptVars,
    transportVars,
    landingVars,
    loopVars>>

notAttempt ==
  <<roomVars, managerVars, healthVars, winVars, inputVars, abilityVars,
    newPlayerVars, projectileVars, regenVars, geometryVars,
    transportVars,
    landingVars,
    loopVars>>

notTransport ==
  <<roomVars, managerVars, healthVars, winVars, inputVars, abilityVars,
    newPlayerVars, projectileVars, regenVars, geometryVars, attemptVars,
    landingVars,
    loopVars>>

notLanding ==
  <<roomVars, managerVars, healthVars, winVars, inputVars, abilityVars,
    newPlayerVars, projectileVars, regenVars, geometryVars, attemptVars,
    transportVars,
    loopVars>>

notLoop ==
  <<roomVars, managerVars, healthVars, winVars, inputVars, abilityVars,
    newPlayerVars, projectileVars, regenVars, geometryVars, attemptVars,
    transportVars, landingVars>>

\* ------------------------------------------------------------------------
\* Ordered maps (JavaScript Map): sequences of records with an id field
\* ------------------------------------------------------------------------
Range(s) == {s[i] : i \in 1..Len(s)}

Keys(m) == {m[i].id : i \in 1..Len(m)}

MapHas(m, id) == id \in Keys(m)

MapGet(m, id) == m[CHOOSE i \in 1..Len(m) : m[i].id = id]

\* Map.set: an existing key keeps its position, a new key goes last
MapSet(m, rec) ==
  IF MapHas(m, rec.id)
  THEN [i \in 1..Len(m) |-> IF m[i].id = rec.id THEN rec ELSE m[i]]
  ELSE Append(m, rec)

MapDelete(m, id) == SelectSeq(m, LAMBDA e : e.id # id)

SeqDelete(s, x) == SelectSeq(s, LAMBDA e : e # x)

\* ------------------------------------------------------------------------
\* shared: player construction and cooldown arithmetic
\* ------------------------------------------------------------------------
\* cooldownRemaining is a time in milliseconds; a tick lasts 1000 / TICK_RATE
\* of them, a whole number of thirds: times are kept in thirds of a millisecond
MS_UNITS == 3

\* createDefaultAbilityState with tick 0 for an ability never used
createDefaultAbilityState_zero ==
  [a \in Abilities |-> [ready |-> TRUE, cooldownRemaining |-> 0, lastUsed |-> 0]]

createDefaultAbilityState ==
  [a \in Abilities |->
     [ready |-> TRUE, cooldownRemaining |-> 0, lastUsed |-> NEVER_USED]]

createDefaultPlayerState(id) ==
  [id |-> id, health |-> SPAWN_HEALTH, maxHealth |-> MAX_HEALTH,
   isAlive |-> TRUE, abilities |-> createDefaultAbilityState]

\* lengths are in units of 2 cm: PLAYER_RADIUS is 20 and NOVA_BLAST_RADIUS 250
UNITS_PER_METRE == 50
NOVA_BLAST_RADIUS == 5 * UNITS_PER_METRE
PLAYER_RADIUS == (4 * UNITS_PER_METRE) \div 10
PLAYER_HEIGHT == (18 * UNITS_PER_METRE) \div 10
ARCANE_RAY_RANGE == 200 * UNITS_PER_METRE
\* velocities are kept in thirds of a metre per second, so that the dash
\* speed DISTANCE / (DURATION_MS / 1000) is a whole number
VELOCITY_UNITS == 3
PLAYER_SPEED == 8 * VELOCITY_UNITS
JUMP_VELOCITY == 10 * VELOCITY_UNITS
DASH_DISTANCE == 8
DASH_DURATION_MS == 150
LAUNCH_JUMP_VERTICAL_VELOCITY == 20 * VELOCITY_UNITS
LAUNCH_JUMP_HORIZONTAL_BOOST == 5 * VELOCITY_UNITS

\* Math.ceil(cooldownMs / (1000 / TICK_RATE))
cooldownMsToTicks(cooldownMs) ==
  (cooldownMs * TICK_RATE + 999) \div 1000

isAbilityReady(lastUsed, cooldownMs, tick) ==
  tick - lastUsed >= cooldownMsToTicks(cooldownMs)

\* ticks * (1000 / TICK_RATE)
ticksToMs(ticks) == (ticks * 1000 * MS_UNITS) \div TICK_RATE

\* CooldownSystem: the cooldown of each ability
ABILITY_COOLDOWNS ==
  [dash |-> DASH_COOLDOWN_MS, launchJump |-> LAUNCH_JUMP_COOLDOWN_MS,
   primaryFire |-> PRIMARY_FIRE_COOLDOWN_MS,
   novaBlast |-> NOVA_BLAST_COOLDOWN_MS, arcaneRay |-> ARCANE_RAY_COOLDOWN_MS]

\* recordAbilityUse, and the same three assignments where recordFire,
\* applyDash, applyLaunchJump and fireArcaneRay spell them out
recordAbilityUse(player, ability, tick) ==
  [player EXCEPT !.abilities[ability] =
     [ready |-> FALSE,
      cooldownRemaining |-> ABILITY_COOLDOWNS[ability] * MS_UNITS,
      lastUsed |-> tick]]

\* ------------------------------------------------------------------------
\* CombatSystem
\* ------------------------------------------------------------------------
\* applyHit that stores the health the subtraction leaves, below zero on a kill
applyHit_unclamped(pl, victimId, killerId, damage) ==
  IF ~MapHas(pl, victimId) \/ ~MapGet(pl, victimId).isAlive
  THEN [players |-> pl, death |-> <<>>]
  ELSE LET victim == MapGet(pl, victimId)
           h == victim.health - damage
       IN IF h <= 0
          THEN [players |-> MapSet(pl, [victim EXCEPT !.health = h,
                                                      !.isAlive = FALSE]),
                death |-> <<[victimId |-> victimId, killerId |-> killerId]>>]
          ELSE [players |-> MapSet(pl, [victim EXCEPT !.health = h]),
                death |-> <<>>]

\* applyHit that does not test victim.isAlive
applyHit_again(pl, victimId, killerId, damage) ==
  IF ~MapHas(pl, victimId)
  THEN [players |-> pl, death |-> <<>>]
  ELSE LET victim == MapGet(pl, victimId)
           h == victim.health - damage
       IN IF h <= 0
          THEN [players |-> MapSet(pl, [victim EXCEPT !.health = 0,
                                                      !.isAlive = FALSE]),
                death |-> <<[victimId |-> victimId, killerId |-> killerId]>>]
          ELSE [players |-> MapSet(pl, [victim EXCEPT !.health = h]),
                death |-> <<>>]

\* applyHit: the player map after the hit, and the death event (a sequence
\* holding the event, empty for null)
applyHit(pl, victimId, killerId, damage) ==
  IF ~MapHas(pl, victimId) \/ ~MapGet(pl, victimId).isAlive
  THEN [players |-> pl, death |-> <<>>]
  ELSE LET victim == MapGet(pl, victimId)
           h == victim.health - damage
       IN IF h <= 0
          THEN [players |-> MapSet(pl, [victim EXCEPT !.health = 0,
                                                      !.isAlive = FALSE]),
                death |-> <<[victimId |-> victimId, killerId |-> killerId]>>]
          ELSE [players |-> MapSet(pl, [victim EXCEPT !.health = h]),
                death |-> <<>>]

\* checkWinCondition that names the first alive player whenever one is alive
checkWinCondition_first(pl) ==
  LET alivePlayers == SelectSeq(pl, LAMBDA p : p.isAlive)
  IN IF Len(alivePlayers) >= 1 THEN alivePlayers[1].id ELSE NULL

checkWinCondition(pl) ==
  LET alivePlayers == SelectSeq(pl, LAMBDA p : p.isAlive)
  IN IF Len(alivePlayers) = 1 THEN alivePlayers[1].id ELSE NULL

\* ------------------------------------------------------------------------
\* HealthRegenSystem
\* ------------------------------------------------------------------------
\* Math.ceil(DELAY_MS / TICK_INTERVAL_MS)
delayTicks == (HEALTH_REGEN_DELAY_MS * TICK_RATE + 999) \div 1000

\* the test with <= for <
damagedRecently_inclusive(player, tick) ==
  /\ "lastDamageTick" \in DOMAIN player
  /\ tick - player.lastDamageTick <= delayTicks

\* ticksSinceDamage < delayTicks; a player record without a lastDamageTick
\* reads undefined, the difference is NaN and the comparison is false
damagedRecently(player, tick) ==
  /\ "lastDamageTick" \in DOMAIN player
  /\ tick - player.lastDamageTick < delayTicks

\* the body of the loop of update, for one player; deltaSeconds is in whole
\* seconds
regenPlayer(player, tick, deltaSeconds) ==
  IF ~player.isAlive THEN player
  ELSE IF player.health >= player.maxHealth THEN player
  ELSE IF damagedRecently(player, tick) THEN player
  ELSE [player EXCEPT !.health =
          Min(@ + HEALTH_REGEN_RATE_PER_SECOND * deltaSeconds, player.maxHealth)]

healthRegenUpdate(pl, tick, deltaSeconds) ==
  [i \in 1..Len(pl) |-> regenPlayer(pl[i], tick, deltaSeconds)]

\* ------------------------------------------------------------------------
\* GameRoom: the room as a record, and its private methods as functions
\* from room to room
\* ------------------------------------------------------------------------
Room ==
  [phase |-> phase, connectedPlayers |-> connectedPlayers,
   players |-> players, projectiles |-> projectiles,
   pendingInputs |-> pendingInputs, currentTick |-> currentTick,
   countdownSeconds |-> countdownSeconds,
   countdownIntervalId |-> countdownIntervalId, timers |-> timers,
   sent |-> <<>>]

SetRoom(r, o) ==
  /\ phase' = r.phase
  /\ connectedPlayers' = r.connectedPlayers
  /\ players' = r.players
  /\ projectiles' = r.projectiles
  /\ pendingInputs' = r.pendingInputs
  /\ currentTick' = r.currentTick
  /\ countdownSeconds' = r.countdownSeconds
  /\ countdownIntervalId' = r.countdownIntervalId
  /\ timers' = r.timers
  /\ sent' = r.sent
  /\ op' = o
  /\ UNCHANGED notRoom

broadcast(r, message) == [r EXCEPT !.sent = Append(@, message)]

broadcastPhase(r) ==
  broadcast(r, [type |-> "GAME_PHASE_UPDATE", phase |-> r.phase,
                currentPlayers |-> Len(r.connectedPlayers)])

broadcastCountdown(r) ==
  broadcast(r, [type |-> "COUNTDOWN_UPDATE",
                secondsRemaining |-> r.countdownSeconds])

\* broadcastState with the tick the snapshot was prepared at, one tick before
broadcastState_previousTick(r) ==
  broadcast(r, [type |-> "GAME_STATE", tick |-> r.currentTick - 1,
                projectiles |-> r.projectiles])

\* broadcastState: the snapshot carries the tick and the projectiles (the
\* players it carries are the player map itself)
broadcastState(r) ==
  broadcast(r, [type |-> "GAME_STATE", tick |-> r.currentTick,
                projectiles |-> r.projectiles])

\* setInterval returns a handle no scheduled timer has
NewHandle(ts) == CHOOSE h \in 1..(Cardinality(ts) + 1) : h \notin ts

stopCountdown(r) ==
  IF r.countdownIntervalId # NO_TIMER
  THEN [r EXCEPT !.timers = @ \ {r.countdownIntervalId},
                 !.countdownIntervalId = NO_TIMER]
  ELSE r

startCountdown(r) ==
  LET r1 == [r EXCEPT !.phase = "countdown",
                      !.countdownSeconds = COUNTDOWN_SECONDS]
      r2 == broadcastCountdown(broadcastPhase(r1))
      h == NewHandle(r2.timers)
  IN [r2 EXCEPT !.timers = @ \cup {h}, !.countdownIntervalId = h]

\* the respawn loop of startNewGame over connectedPlayers[i..]
RECURSIVE Respawn(_, _)
Respawn(r, i) ==
  IF i > Len(r.connectedPlayers) THEN r
  ELSE LET id == r.connectedPlayers[i]
       IN Respawn([r EXCEPT
                     !.players = MapSet(@, createDefaultPlayerState(id)),
                     !.pendingInputs = MapSet(@, [id |-> id, inputs |-> <<>>])],
                  i + 1)

\* startNewGame that leaves the players and their queues as they are
startNewGame_noRespawn(r) ==
  IF Len(r.connectedPlayers) < MIN_PLAYERS_TO_START
  THEN broadcastPhase([r EXCEPT !.phase = "waiting_for_players"])
  ELSE broadcastPhase([r EXCEPT !.projectiles = <<>>, !.currentTick = 0,
                                !.phase = "playing"])

startNewGame(r) ==
  IF Len(r.connectedPlayers) < MIN_PLAYERS_TO_START
  THEN broadcastPhase([r EXCEPT !.phase = "waiting_for_players"])
  ELSE LET r1 == [r EXCEPT !.projectiles = <<>>, !.currentTick = 0,
                           !.players = <<>>]
           r2 == Respawn(r1, 1)
       IN broadcastPhase([r2 EXCEPT !.phase = "playing"])

\* fullReset that leaves the countdown interval scheduled
fullReset_keepTimer(r) ==
  [r EXCEPT !.phase = "waiting_for_players", !.projectiles = <<>>,
            !.players = <<>>, !.currentTick = 0]

fullReset(r) ==
  [stopCountdown(r) EXCEPT !.phase = "waiting_for_players",
                           !.projectiles = <<>>, !.players = <<>>,
                           !.currentTick = 0]

\* handleGameOver that starts the countdown before it announces the winner
handleGameOver_late(r, winnerId) ==
  broadcast(startCountdown(r), [type |-> "GAME_OVER", winnerId |-> winnerId])

handleGameOver(r, winnerId) ==
  startCountdown(broadcast(r, [type |-> "GAME_OVER", winnerId |-> winnerId]))

checkAutoStart(r) ==
  IF r.phase # "waiting_for_players" THEN r
  ELSE IF Len(r.connectedPlayers) >= MIN_PLAYERS_TO_START
       THEN startNewGame(r)
       ELSE r

\* handleDeath that announces the death and does not look for a winner
handleDeath_silent(r, death) ==
  broadcast(r, [type |-> "PLAYER_DIED", playerId |-> death.victimId])

handleDeath(r, death) ==
  LET r1 == broadcast(r, [type |-> "PLAYER_DIED", playerId |-> death.victimId])
      winnerId == checkWinCondition(r1.players)
  IN IF r1.phase = "playing" /\ winnerId # NULL
     THEN handleGameOver(r1, winnerId)
     ELSE r1

\* applyHit on the room's players, followed by handleDeath on a death
hitAndDeath(r, victimId, killerId, damage) ==
  LET res == applyHit(r.players, victimId, killerId, damage)
      r1 == [r EXCEPT !.players = res.players]
  IN IF res.death # <<>> THEN handleDeath(r1, res.death[1]) ELSE r1

\* ------------------------------------------------------------------------
\* GameRoom: public handlers
\* ------------------------------------------------------------------------
addPlayer(r, playerId) ==
  LET r1 == [r EXCEPT
               !.connectedPlayers =
                  IF playerId \in Range(@) THEN @ ELSE Append(@, playerId),
               !.pendingInputs = MapSet(@, [id |-> playerId, inputs |-> <<>>])]
      r2 == [r1 EXCEPT !.players = MapSet(@, createDefaultPlayerState(playerId))]
  IN broadcastPhase(IF r.phase = "waiting_for_players"
                    THEN checkAutoStart(r2) ELSE r2)

\* removePlayer that checks the win condition in every phase
removePlayer_anyPhase(r, playerId) ==
  LET r1 == [r EXCEPT !.connectedPlayers = SeqDelete(@, playerId),
                      !.players = MapDelete(@, playerId),
                      !.pendingInputs = MapDelete(@, playerId)]
      winnerId == checkWinCondition(r1.players)
  IN IF Len(r1.connectedPlayers) = 0 THEN fullReset(r1)
     ELSE IF winnerId # NULL THEN handleGameOver(r1, winnerId)
     ELSE IF r1.phase = "countdown"
          THEN IF Len(r1.connectedPlayers) < MIN_PLAYERS_TO_START
               THEN broadcastPhase([stopCountdown(r1) EXCEPT
                                      !.phase = "waiting_for_players"])
               ELSE r1
     ELSE IF r1.phase = "waiting_for_players" THEN broadcastPhase(r1)
     ELSE r1

\* removePlayer that does not re-check the win condition during a match
removePlayer_noWinCheck(r, playerId) ==
  LET r1 == [r EXCEPT !.connectedPlayers = SeqDelete(@, playerId),
                      !.players = MapDelete(@, playerId),
                      !.pendingInputs = MapDelete(@, playerId)]
  IN IF Len(r1.connectedPlayers) = 0 THEN fullReset(r1)
     ELSE IF r1.phase = "playing" THEN r1
     ELSE IF r1.phase = "countdown"
          THEN IF Len(r1.connectedPlayers) < MIN_PLAYERS_TO_START
               THEN broadcastPhase([stopCountdown(r1) EXCEPT
                                      !.phase = "waiting_for_players"])
               ELSE r1
     ELSE broadcastPhase(r1)

removePlayer(r, playerId) ==
  LET r1 == [r EXCEPT !.connectedPlayers = SeqDelete(@, playerId),
                      !.players = MapDelete(@, playerId),
                      !.pendingInputs = MapDelete(@, playerId)]
      winnerId == checkWinCondition(r1.players)
  IN IF Len(r1.connectedPlayers) = 0 THEN fullReset(r1)
     ELSE IF r1.phase = "playing"
          THEN IF winnerId # NULL THEN handleGameOver(r1, winnerId) ELSE r1
     ELSE IF r1.phase = "countdown"
          THEN IF Len(r1.connectedPlayers) < MIN_PLAYERS_TO_START
               THEN broadcastPhase([stopCountdown(r1) EXCEPT
                                      !.phase = "waiting_for_players"])
               ELSE r1
     ELSE broadcastPhase(r1)

\* a callback of the countdown interval that does not count down
countdownCallback_still(r) ==
  IF r.countdownSeconds <= 0
  THEN startNewGame(stopCountdown(r))
  ELSE broadcastCountdown(r)

\* the callback of the countdown interval
countdownCallback(r) ==
  LET r1 == [r EXCEPT !.countdownSeconds = @ - 1]
  IN IF r1.countdownSeconds <= 0
     THEN startNewGame(stopCountdown(r1))
     ELSE broadcastCountdown(r1)

handleInput(r, playerId, input) ==
  IF MapHas(r.pendingInputs, playerId)
  THEN [r EXCEPT !.pendingInputs =
          MapSet(@, [id |-> playerId,
                     inputs |-> Append(MapGet(@, playerId).inputs, input)])]
  ELSE r

\* ------------------------------------------------------------------------
\* GameRoom.tick
\* ------------------------------------------------------------------------
NewProjectileId(pr) == CHOOSE n \in 1..(Len(pr) + 1) : n \notin Keys(pr)

\* ProjectileSystem.createProjectile
createProjectile(pr, ownerId, tick) ==
  [id |-> NewProjectileId(pr), ownerId |-> ownerId, createdAt |-> tick,
   lifetime |-> cooldownMsToTicks(PRIMARY_FIRE_LIFETIME_MS),
   damage |-> PRIMARY_FIRE_DAMAGE]

\* applyInput, primary fire: canFire, createProjectile, recordFire
applyPrimaryFire(r, playerId) ==
  LET player == MapGet(r.players, playerId)
  IN IF isAbilityReady(player.abilities["primaryFire"].lastUsed,
                       PRIMARY_FIRE_COOLDOWN_MS, r.currentTick)
     THEN [r EXCEPT
             !.projectiles =
                Append(@, createProjectile(@, playerId, r.currentTick)),
             !.players =
                MapSet(@, recordAbilityUse(player, "primaryFire", r.currentTick))]
     ELSE r

\* PhysicsSystem.applyDash: the cooldown test lets a dash through when
\* lastUsed is 0
applyDash(r, playerId) ==
  LET player == MapGet(r.players, playerId)
      lastUsed == player.abilities["dash"].lastUsed
  IN IF /\ r.currentTick - lastUsed < cooldownMsToTicks(DASH_COOLDOWN_MS)
        /\ lastUsed # 0
     THEN r
     ELSE [r EXCEPT !.players =
             MapSet(@, recordAbilityUse(player, "dash", r.currentTick))]

\* PhysicsSystem.applyLaunchJump; grounded is player.isGrounded
applyLaunchJump(r, playerId, grounded) ==
  LET player == MapGet(r.players, playerId)
      lastUsed == player.abilities["launchJump"].lastUsed
  IN IF /\ r.currentTick - lastUsed < cooldownMsToTicks(LAUNCH_JUMP_COOLDOWN_MS)
        /\ lastUsed # 0
     THEN r
     ELSE IF ~grounded THEN r
     ELSE [r EXCEPT !.players =
             MapSet(@, recordAbilityUse(player, "launchJump", r.currentTick))]

\* the damage loop over the ids hit by an ability, from index i on
RECURSIVE applyHits(_, _, _, _, _)
applyHits(r, victims, i, casterId, damage) ==
  IF i > Len(victims) THEN r
  ELSE applyHits(hitAndDeath(r, victims[i], casterId, damage),
                 victims, i + 1, casterId, damage)

\* NovaBlastSystem.fireNovaBlast and the caller's effect broadcast and damage
\* loop; near is the set of pairs of players closer than the blast radius
applyNovaBlast(r, casterId, near) ==
  LET caster == MapGet(r.players, casterId)
      pl == MapSet(r.players, recordAbilityUse(caster, "novaBlast", r.currentTick))
      hit == SelectSeq(pl, LAMBDA p : /\ p.id # casterId
                                      /\ p.isAlive
                                      /\ {p.id, casterId} \in near)
      hitPlayerIds == [i \in 1..Len(hit) |-> hit[i].id]
      r1 == broadcast([r EXCEPT !.players = pl],
                      [type |-> "NOVA_BLAST"])
  IN IF isAbilityReady(caster.abilities["novaBlast"].lastUsed,
                       NOVA_BLAST_COOLDOWN_MS, r.currentTick)
     THEN applyHits(r1, hitPlayerIds, 1, casterId, NOVA_BLAST_DAMAGE)
     ELSE r

\* ArcaneRaySystem.findClosestHit; line lists the players the ray crosses,
\* nearest first
findClosestHit(pl, casterId, line) ==
  LET met == SelectSeq(line, LAMBDA id : /\ id # casterId
                                         /\ MapHas(pl, id)
                                         /\ MapGet(pl, id).isAlive)
  IN IF Len(met) > 0 THEN met[1] ELSE NULL

\* fireArcaneRay that records the use only when the ray meets a player
applyArcaneRay_recordOnHit(r, casterId, line) ==
  LET caster == MapGet(r.players, casterId)
      pl == MapSet(r.players, recordAbilityUse(caster, "arcaneRay", r.currentTick))
      hitPlayerId == findClosestHit(r.players, casterId, line)
  IN IF isAbilityReady(caster.abilities["arcaneRay"].lastUsed,
                       ARCANE_RAY_COOLDOWN_MS, r.currentTick)
     THEN IF hitPlayerId # NULL
          THEN hitAndDeath(broadcast([r EXCEPT !.players = pl],
                                     [type |-> "ARCANE_RAY"]),
                           hitPlayerId, casterId, ARCANE_RAY_DAMAGE)
          ELSE broadcast(r, [type |-> "ARCANE_RAY"])
     ELSE r

\* ArcaneRaySystem.fireArcaneRay and the caller's effect broadcast and damage
applyArcaneRay(r, casterId, line) ==
  LET caster == MapGet(r.players, casterId)
      pl == MapSet(r.players, recordAbilityUse(caster, "arcaneRay", r.currentTick))
      hitPlayerId == findClosestHit(pl, casterId, line)
      r1 == broadcast([r EXCEPT !.players = pl],
                      [type |-> "ARCANE_RAY"])
  IN IF isAbilityReady(caster.abilities["arcaneRay"].lastUsed,
                       ARCANE_RAY_COOLDOWN_MS, r.currentTick)
     THEN IF hitPlayerId # NULL
          THEN hitAndDeath(r1, hitPlayerId, casterId, ARCANE_RAY_DAMAGE)
          ELSE r1
     ELSE r

\* grounded tells whether the player stands on the ground when the input is
\* applied
applyInput(r, playerId, input, near, ray, grounded) ==
  LET r1 == IF "primaryFire" \in input THEN applyPrimaryFire(r, playerId) ELSE r
      r2 == IF "dash" \in input THEN applyDash(r1, playerId) ELSE r1
      r3 == IF "launchJump" \in input
            THEN applyLaunchJump(r2, playerId, grounded) ELSE r2
      r4 == IF "novaBlast" \in input THEN applyNovaBlast(r3, playerId, near) ELSE r3
  IN IF "arcaneRay" \in input THEN applyArcaneRay(r4, playerId, ray[playerId])
     ELSE r4

\* the inner loop of processInputs: the inputs of one player, from index j on
RECURSIVE applyInputs(_, _, _, _, _, _)
applyInputs(r, playerId, inputs, j, near, ray) ==
  IF j > Len(inputs) THEN r
  ELSE applyInputs(applyInput(r, playerId, inputs[j], near, ray, TRUE),
                   playerId, inputs, j + 1, near, ray)

\* the outer loop of processInputs: the entries of pendingInputs, from i on
RECURSIVE processQueues(_, _, _, _)
processQueues(r, i, near, ray) ==
  IF i > Len(r.pendingInputs) THEN r
  ELSE LET e == r.pendingInputs[i]
       IN IF ~MapHas(r.players, e.id) \/ ~MapGet(r.players, e.id).isAlive
          THEN processQueues(r, i + 1, near, ray)
          ELSE processQueues(applyInputs(r, e.id, e.inputs, 1, near, ray),
                             i + 1, near, ray)

processInputs(r, near, ray) ==
  LET r1 == processQueues(r, 1, near, ray)
  IN [r1 EXCEPT !.pendingInputs =
        [i \in 1..Len(@) |-> [id |-> @[i].id, inputs |-> <<>>]]]

\* ProjectileSystem.update that lets a projectile live one tick longer
advanceProjectiles_late(r, fate) ==
  [r EXCEPT !.projectiles =
     SelectSeq(@, LAMBDA p : /\ fate[p.id] # "arena"
                             /\ ~(r.currentTick - p.createdAt > p.lifetime))]

\* ProjectileSystem.update and the removal of the expired projectiles; fate
\* gives, per projectile, "arena" when its new position meets the arena
\* geometry or leaves the bounds, and "none" otherwise
advanceProjectiles(r, fate) ==
  [r EXCEPT !.projectiles =
     SelectSeq(@, LAMBDA p : /\ fate[p.id] # "arena"
                             /\ ~(r.currentTick - p.createdAt >= p.lifetime))]

\* the players a projectile can hit: CollisionSystem.checkProjectileCollisions
\* skips the owner and the dead
Hittable(pl, projectile) ==
  {p.id : p \in {q \in Range(pl) : q.id # projectile.ownerId /\ q.isAlive}}

\* the players of the inner loop of checkProjectileCollisions that pass the
\* collision test of a projectile, in map order; overlapping is the set of
\* players the projectile overlaps
Colliding(pl, projectile, overlapping) ==
  SelectSeq(pl, LAMBDA q : q.id \in Hittable(pl, projectile) \cap overlapping)

CollisionResult(projectile, player) ==
  [projectileId |-> projectile.id, playerId |-> player.id,
   ownerId |-> projectile.ownerId, damage |-> projectile.damage]

\* checkProjectileCollisions without the break: a hit per player overlapped
RECURSIVE checkProjectileCollisions_all(_, _, _)
checkProjectileCollisions_all(pl, pr, overlaps) ==
  IF pr = <<>> THEN <<>>
  ELSE LET met == Colliding(pl, Head(pr), overlaps[Head(pr).id])
       IN [j \in 1..Len(met) |-> CollisionResult(Head(pr), met[j])]
            \o checkProjectileCollisions_all(pl, Tail(pr), overlaps)

\* checkProjectileCollisions: the outer loop over the projectiles; the inner
\* loop breaks at the first player met
RECURSIVE checkProjectileCollisions(_, _, _)
checkProjectileCollisions(pl, pr, overlaps) ==
  IF pr = <<>> THEN <<>>
  ELSE LET met == Colliding(pl, Head(pr), overlaps[Head(pr).id])
       IN (IF met # <<>> THEN <<CollisionResult(Head(pr), met[1])>> ELSE <<>>)
            \o checkProjectileCollisions(pl, Tail(pr), overlaps)

\* the hit loop of tick, from index i on
RECURSIVE processHits(_, _, _)
processHits(r, hits, i) ==
  IF i > Len(hits) THEN r
  ELSE LET hit == hits[i]
           r1 == [r EXCEPT !.projectiles = MapDelete(@, hit.projectileId)]
       IN processHits(hitAndDeath(r1, hit.playerId, hit.ownerId, hit.damage),
                      hits, i + 1)

\* updateAbilityCooldown that reports the time elapsed since the use
updateAbilityCooldown_elapsed(ability, cooldownMs, tick) ==
  LET cooldownTicks == cooldownMsToTicks(cooldownMs)
      ticksSince == tick - ability.lastUsed
  IN IF ticksSince >= cooldownTicks
     THEN [ability EXCEPT !.ready = TRUE, !.cooldownRemaining = 0]
     ELSE [ability EXCEPT !.ready = FALSE,
                          !.cooldownRemaining = ticksToMs(ticksSince)]

\* the ready flag and the remaining time as ProjectileSystem.updateCooldowns
\* and PhysicsSystem.updateAbilityCooldowns recompute them
updateAbilityCooldown(ability, cooldownMs, tick) ==
  LET cooldownTicks == cooldownMsToTicks(cooldownMs)
      ticksSince == tick - ability.lastUsed
  IN IF ticksSince >= cooldownTicks
     THEN [ability EXCEPT !.ready = TRUE, !.cooldownRemaining = 0]
     ELSE [ability EXCEPT !.ready = FALSE,
                          !.cooldownRemaining =
                             ticksToMs(cooldownTicks - ticksSince)]

updateCooldowns(r) ==
  [r EXCEPT !.players =
     [i \in 1..Len(@) |->
        [@[i] EXCEPT
           !.abilities["primaryFire"] =
              updateAbilityCooldown(@, PRIMARY_FIRE_COOLDOWN_MS, r.currentTick),
           !.abilities["dash"] =
              updateAbilityCooldown(@, DASH_COOLDOWN_MS, r.currentTick),
           !.abilities["launchJump"] =
              updateAbilityCooldown(@, LAUNCH_JUMP_COOLDOWN_MS, r.currentTick)]]]

\* CooldownSystem.updateAllCooldowns
updateAllCooldowns(pl, tick) ==
  [i \in 1..Len(pl) |->
     [pl[i] EXCEPT !.abilities =
        [a \in Abilities |->
           updateAbilityCooldown(pl[i].abilities[a], ABILITY_COOLDOWNS[a], tick)]]]

\* tick after the input stage
tickAfterInputs(r, fate, overlaps) ==
  LET r1 == advanceProjectiles(r, fate)
      hits == checkProjectileCollisions(r1.players, r1.projectiles, overlaps)
      r2 == processHits(r1, hits, 1)
  IN broadcastState(updateCooldowns(r2))

\* ------------------------------------------------------------------------
\* Actions of the room
\* ------------------------------------------------------------------------
Pairs == {{a, b} : a, b \in PlayerIds} \ {{a} : a \in PlayerIds}

\* the orders in which a ray can cross the other players
Lines ==
  {<<>>} \cup {<<a>> : a \in PlayerIds}
         \cup {<<a, b>> : a, b \in PlayerIds}

Casters(ability) ==
  {e.id : e \in {q \in Range(pendingInputs) :
                    \E j \in 1..Len(q.inputs) : ability \in q.inputs[j]}}

\* the number of inputs pending in the entries i.. of the queue map
RECURSIVE Pending(_, _)
Pending(pi, i) ==
  IF i > Len(pi) THEN 0 ELSE Len(pi[i].inputs) + Pending(pi, i + 1)

RoomInit ==
  /\ phase = "waiting_for_players"
  /\ connectedPlayers = <<>>
  /\ players = <<>>
  /\ projectiles = <<>>
  /\ pendingInputs = <<>>
  /\ currentTick = 0
  /\ countdownSeconds = 0
  /\ countdownIntervalId = NO_TIMER
  /\ timers = {}
  /\ sent = <<>>
  /\ op = [name |-> "init"]

\* ConnectionManager.handleJoinGame: a fresh id joins (uuidv4 never repeats
\* an id in use; the first free id stands for it)
FreshId ==
  IdOrder[CHOOSE i \in 1..Len(IdOrder) :
            /\ IdOrder[i] \notin Range(connectedPlayers)
            /\ \A j \in 1..(i - 1) : IdOrder[j] \in Range(connectedPlayers)]

AddPlayer ==
  /\ PlayerIds \ Range(connectedPlayers) # {}
  /\ SetRoom(addPlayer(Room, FreshId), [name |-> "addPlayer", id |-> FreshId])

\* ConnectionManager.handleDisconnect: a connected player leaves
RemovePlayer ==
  \E id \in Range(connectedPlayers) :
    SetRoom(removePlayer(Room, id),
            [name |-> "removePlayer", id |-> id, from |-> phase])

\* a scheduled countdown interval fires
CountdownFire ==
  \E h \in timers :
    SetRoom(countdownCallback(Room), [name |-> "countdownFire"])

HandleInput ==
  \E id \in Range(connectedPlayers), input \in Inputs :
    /\ Pending(pendingInputs, 1) < MaxPending
    /\ SetRoom(handleInput(Room, id, input),
               [name |-> "handleInput", id |-> id])

Tick ==
  /\ currentTick < MaxTick
  /\ LET r0 == [Room EXCEPT !.currentTick = @ + 1]
     IN IF phase # "playing"
        THEN SetRoom(broadcastState(r0), [name |-> "tick"])
        ELSE \E near \in (IF Casters("novaBlast") = {} THEN {{}}
                          ELSE SUBSET Pairs),
                ray \in [Casters("arcaneRay") -> Lines] :
               LET r1 == processInputs(r0, near, ray)
               IN \E fate \in [Keys(r1.projectiles) -> {"arena", "none"}],
                     overlaps \in [Keys(r1.projectiles) -> SUBSET PlayerIds] :
                    SetRoom(tickAfterInputs(r1, fate, overlaps),
                            [name |-> "tick"])



\* ------------------------------------------------------------------------
\* GamePhaseManager: the manager with its timers as a record, and its
\* methods as functions from record to record
\* ------------------------------------------------------------------------
Manager ==
  [phase |-> manager.phase, countdownSeconds |-> manager.countdownSeconds,
   countdownIntervalId |-> manager.countdownIntervalId,
   timers |-> managerTimers, sent |-> <<>>, firings |-> firings,
   gameStarts |-> gameStarts]

SetManager(m, o) ==
  /\ manager' = [phase |-> m.phase, countdownSeconds |-> m.countdownSeconds,
                 countdownIntervalId |-> m.countdownIntervalId]
  /\ managerTimers' = m.timers
  /\ managerSent' = m.sent
  /\ managerOp' = o
  /\ firings' = m.firings
  /\ gameStarts' = m.gameStarts
  /\ UNCHANGED notManager

GPM_broadcastPhase(m, playerCount) ==
  broadcast(m, [type |-> "GAME_PHASE_UPDATE", phase |-> m.phase,
                currentPlayers |-> playerCount])

GPM_broadcastCountdown(m) ==
  broadcast(m, [type |-> "COUNTDOWN_UPDATE",
                secondsRemaining |-> m.countdownSeconds])

\* clearInterval(this.countdownIntervalId)
GPM_stopCountdown(m) ==
  IF m.countdownIntervalId # NO_TIMER
  THEN [m EXCEPT !.timers = {t \in @ : t.id # m.countdownIntervalId},
                 !.countdownIntervalId = NO_TIMER]
  ELSE m

\* the new interval is scheduled whether or not an earlier one still is
GPM_startCountdown(m, playerCount) ==
  LET m1 == [m EXCEPT !.phase = "countdown",
                      !.countdownSeconds = COUNTDOWN_SECONDS,
                      !.firings = 0, !.gameStarts = 0]
      m2 == GPM_broadcastCountdown(GPM_broadcastPhase(m1, playerCount))
      h == NewHandle({t.id : t \in m2.timers})
  IN [m2 EXCEPT !.timers = @ \cup {[id |-> h, playerCount |-> playerCount]},
                !.countdownIntervalId = h]

\* the callback startCountdown schedules; playerCount is the one it closes over
GPM_countdownCallback(m, playerCount) ==
  LET m1 == [m EXCEPT !.countdownSeconds = @ - 1, !.firings = @ + 1]
  IN IF m1.countdownSeconds <= 0
     THEN LET m2 == [GPM_stopCountdown(m1) EXCEPT !.phase = "playing"]
          IN [GPM_broadcastPhase(m2, playerCount) EXCEPT !.gameStarts = @ + 1]
     ELSE GPM_broadcastCountdown(m1)

\* checkAutoStart that asks for more players than the minimum
GPM_checkAutoStart_strict(m, playerCount) ==
  IF m.phase # "waiting_for_players" THEN m
  ELSE IF playerCount > MIN_PLAYERS_TO_START
       THEN GPM_startCountdown(m, playerCount)
       ELSE m

GPM_checkAutoStart(m, playerCount) ==
  IF m.phase # "waiting_for_players" THEN m
  ELSE IF playerCount >= MIN_PLAYERS_TO_START
       THEN GPM_startCountdown(m, playerCount)
       ELSE m

GPM_onPlayerCountChanged(m, playerCount) ==
  IF m.phase = "countdown" /\ playerCount < MIN_PLAYERS_TO_START
  THEN GPM_broadcastPhase([GPM_stopCountdown(m) EXCEPT
                             !.phase = "waiting_for_players"],
                          playerCount)
  ELSE m

GPM_handleGameOver(m, winnerId) ==
  GPM_startCountdown(broadcast(m, [type |-> "GAME_OVER", winnerId |-> winnerId]),
                     MIN_PLAYERS_TO_START)

GPM_startPlaying(m, playerCount) ==
  GPM_broadcastPhase([GPM_stopCountdown(m) EXCEPT !.phase = "playing"],
                     playerCount)

GPM_fullReset(m) ==
  [GPM_stopCountdown(m) EXCEPT !.phase = "waiting_for_players",
                               !.countdownSeconds = 0]

GPM_stop(m) == GPM_stopCountdown(m)

\* ------------------------------------------------------------------------
\* Actions of a phase manager under any caller
\* ------------------------------------------------------------------------
PlayerCounts == 0..MaxPlayerCount

ManagerInit ==
  /\ manager = [phase |-> "waiting_for_players", countdownSeconds |-> 0,
                countdownIntervalId |-> NO_TIMER]
  /\ managerTimers = {}
  /\ managerSent = <<>>
  /\ managerOp = [name |-> "init"]
  /\ firings = 0
  /\ gameStarts = 0

CheckAutoStart ==
  \E n \in PlayerCounts :
    /\ Cardinality(managerTimers) < MaxTimers
    /\ SetManager(GPM_checkAutoStart(Manager, n),
                  [name |-> "checkAutoStart", playerCount |-> n,
                   from |-> manager.phase])

OnPlayerCountChanged ==
  \E n \in PlayerCounts :
    SetManager(GPM_onPlayerCountChanged(Manager, n),
               [name |-> "onPlayerCountChanged", playerCount |-> n,
                from |-> manager.phase])

HandleGameOver ==
  \E winnerId \in PlayerIds :
    /\ Cardinality(managerTimers) < MaxTimers
    /\ SetManager(GPM_handleGameOver(Manager, winnerId),
                  [name |-> "handleGameOver", winnerId |-> winnerId,
                   from |-> manager.phase])

StartPlaying ==
  \E n \in PlayerCounts :
    SetManager(GPM_startPlaying(Manager, n),
               [name |-> "startPlaying", playerCount |-> n,
                from |-> manager.phase])

FullReset ==
  SetManager(GPM_fullReset(Manager),
             [name |-> "fullReset", from |-> manager.phase])

Stop ==
  SetManager(GPM_stop(Manager), [name |-> "stop", from |-> manager.phase])

\* a scheduled interval fires: its callback runs
TimerFire ==
  \E t \in managerTimers :
    /\ firings < MaxFirings
    /\ SetManager(GPM_countdownCallback(Manager, t.playerCount),
                  [name |-> "timerFire", from |-> manager.phase])

\* ------------------------------------------------------------------------
\* The health of the players of a room: what joins, leaves, hits,
\* regeneration steps and match restarts do to a player map, each on any
\* player and in any order
\* ------------------------------------------------------------------------
Damages == {PRIMARY_FIRE_DAMAGE, NOVA_BLAST_DAMAGE, ARCANE_RAY_DAMAGE}

HealthInit ==
  /\ healthPlayers = <<>>
  /\ healthOp = [name |-> "init"]

SetHealth(pl, o) ==
  /\ healthPlayers' = pl
  /\ healthOp' = o
  /\ UNCHANGED notHealth

\* addPlayer: players.set(playerId, createDefaultPlayerState(playerId))
HealthJoin ==
  \E id \in HealthIds \ Keys(healthPlayers) :
    SetHealth(MapSet(healthPlayers, createDefaultPlayerState(id)),
              [name |-> "join"])

\* removePlayer: players.delete(playerId)
HealthLeave ==
  \E id \in Keys(healthPlayers) :
    SetHealth(MapDelete(healthPlayers, id), [name |-> "leave"])

\* a projectile, nova-blast or arcane-ray hit: applyHit with its damage
HealthHit ==
  \E victimId \in HealthIds, damage \in Damages :
    \E killerId \in HealthIds \ {victimId} :
    SetHealth(applyHit(healthPlayers, victimId, killerId, damage).players,
              [name |-> "hit", victimId |-> victimId,
               died |-> applyHit(healthPlayers, victimId, killerId,
                                 damage).death # <<>>,
               overkill |-> /\ MapHas(healthPlayers, victimId)
                            /\ MapGet(healthPlayers, victimId).isAlive
                            /\ MapGet(healthPlayers, victimId).health < damage])

\* a regeneration step over deltaSeconds
HealthRegen ==
  \E deltaSeconds \in 1..MaxDeltaSeconds :
    SetHealth(healthRegenUpdate(healthPlayers, currentTick, deltaSeconds),
              [name |-> "regen"])

\* startNewGame: players.clear() and a fresh state per player
HealthRestart ==
  SetHealth([i \in 1..Len(healthPlayers) |->
               createDefaultPlayerState(healthPlayers[i].id)],
            [name |-> "restart"])

\* ------------------------------------------------------------------------
\* checkWinCondition on any player map
\* ------------------------------------------------------------------------
\* a player of the map: alive as created, or dead
WinPlayer(id, alive) ==
  IF alive THEN createDefaultPlayerState(id)
  ELSE [createDefaultPlayerState(id) EXCEPT !.health = 0, !.isAlive = FALSE]

\* the player maps of up to MaxWinPlayers players, in any insertion order
WinInputs ==
  UNION {
    {[i \in 1..n |-> WinPlayer(f[i][1], f[i][2])] :
       f \in {g \in [1..n -> WinIds \X BOOLEAN] :
                \A i, j \in 1..n : i # j => g[i][1] # g[j][1]}} :
    n \in 0..MaxWinPlayers}

WinIdle ==
  /\ winPlayers = <<>>
  /\ winResult = "pending"

WinInit ==
  /\ winPlayers \in WinInputs
  /\ winResult = "pending"

CheckWinCondition ==
  /\ winResult = "pending"
  /\ winResult' = checkWinCondition(winPlayers)
  /\ UNCHANGED <<winPlayers, notWin>>

\* ------------------------------------------------------------------------
\* GameRoom: the input path. The queues of pendingInputs under handleInput,
\* tick, addPlayer, removePlayer and startNewGame. An input is its
\* sequenceNumber; of applyInput only the record of the call is kept, and of
\* a player only isAlive and lastProcessedInput.
\* ------------------------------------------------------------------------
InputRoom ==
  [phase |-> iqPhase, players |-> iqPlayers, pendingInputs |-> iqPending,
   applied |-> iqApplied]

IQ_createPlayer(id) == [id |-> id, isAlive |-> TRUE, lastProcessedInput |-> 0]

IQ_addPlayer(q, playerId) ==
  [q EXCEPT !.pendingInputs = MapSet(@, [id |-> playerId, inputs |-> <<>>]),
            !.players = MapSet(@, IQ_createPlayer(playerId))]

IQ_removePlayer(q, playerId) ==
  [q EXCEPT !.players = MapDelete(@, playerId),
            !.pendingInputs = MapDelete(@, playerId)]

\* the respawn loop of startNewGame over the connected players, from i on
RECURSIVE IQ_Respawn(_, _, _)
IQ_Respawn(q, connected, i) ==
  IF i > Len(connected) THEN q
  ELSE IQ_Respawn([q EXCEPT
                     !.players = MapSet(@, IQ_createPlayer(connected[i])),
                     !.pendingInputs =
                        MapSet(@, [id |-> connected[i], inputs |-> <<>>])],
                  connected, i + 1)

\* startNewGame that respawns the players and keeps what is queued
IQ_startNewGame_keepQueues(q) ==
  LET connected == [i \in 1..Len(q.pendingInputs) |-> q.pendingInputs[i].id]
  IN IF Len(connected) < MIN_PLAYERS_TO_START
     THEN [q EXCEPT !.phase = "waiting_for_players"]
     ELSE [q EXCEPT !.players = [i \in 1..Len(connected) |->
                                   IQ_createPlayer(connected[i])],
                    !.phase = "playing"]

IQ_startNewGame(q) ==
  LET connected == [i \in 1..Len(q.pendingInputs) |-> q.pendingInputs[i].id]
  IN IF Len(connected) < MIN_PLAYERS_TO_START
     THEN [q EXCEPT !.phase = "waiting_for_players"]
     ELSE [IQ_Respawn([q EXCEPT !.players = <<>>], connected, 1)
             EXCEPT !.phase = "playing"]

IQ_handleInput(q, playerId, input) ==
  IF MapHas(q.pendingInputs, playerId)
  THEN [q EXCEPT !.pendingInputs =
          MapSet(@, [id |-> playerId,
                     inputs |-> Append(MapGet(@, playerId).inputs, input)])]
  ELSE q

\* this.applyInput(player, input); player.lastProcessedInput = ...
IQ_applyInput(q, playerId, input) ==
  [q EXCEPT !.applied[playerId] = Append(@, input),
            !.players = MapSet(@, [MapGet(@, playerId) EXCEPT
                                     !.lastProcessedInput = input])]

\* the inner loop of processInputs: the inputs of one player, from index j on
RECURSIVE IQ_applyInputs(_, _, _, _)
IQ_applyInputs(q, playerId, inputs, j) ==
  IF j > Len(inputs) THEN q
  ELSE IQ_applyInputs(IQ_applyInput(q, playerId, inputs[j]),
                      playerId, inputs, j + 1)

\* the outer loop of processInputs that applies the queue of a dead player too
RECURSIVE IQ_processQueues_dead(_, _)
IQ_processQueues_dead(q, i) ==
  IF i > Len(q.pendingInputs) THEN q
  ELSE LET e == q.pendingInputs[i]
       IN IF ~MapHas(q.players, e.id)
          THEN IQ_processQueues_dead(q, i + 1)
          ELSE IQ_processQueues_dead(IQ_applyInputs(q, e.id, e.inputs, 1), i + 1)

\* the outer loop of processInputs: the entries of pendingInputs, from i on
RECURSIVE IQ_processQueues(_, _)
IQ_processQueues(q, i) ==
  IF i > Len(q.pendingInputs) THEN q
  ELSE LET e == q.pendingInputs[i]
       IN IF ~MapHas(q.players, e.id) \/ ~MapGet(q.players, e.id).isAlive
          THEN IQ_processQueues(q, i + 1)
          ELSE IQ_processQueues(IQ_applyInputs(q, e.id, e.inputs, 1), i + 1)

\* processInputs that leaves the queues as they are
IQ_processInputs_keep(q) == IQ_processQueues(q, 1)

IQ_processInputs(q) ==
  [IQ_processQueues(q, 1) EXCEPT !.pendingInputs =
     [i \in 1..Len(@) |-> [id |-> @[i].id, inputs |-> <<>>]]]

IQ_tick(q) == IF q.phase # "playing" THEN q ELSE IQ_processInputs(q)

\* ------------------------------------------------------------------------
\* Actions of the input path
\* ------------------------------------------------------------------------
\* the number of inputs received from the players of ids
RECURSIVE Received(_)
Received(ids) ==
  IF ids = {} THEN 0
  ELSE LET id == CHOOSE x \in ids : TRUE
       IN iqReceived[id] + Received(ids \ {id})

InputInit ==
  /\ iqPhase = "waiting_for_players"
  /\ iqPlayers = <<>>
  /\ iqPending = <<>>
  /\ iqReceived = [id \in InputIds |-> 0]
  /\ iqApplied = [id \in InputIds |-> <<>>]
  /\ iqOp = [name |-> "init"]

SetInput(q, received, o) ==
  /\ iqPhase' = q.phase
  /\ iqPlayers' = q.players
  /\ iqPending' = q.pendingInputs
  /\ iqApplied' = q.applied
  /\ iqReceived' = received
  /\ iqOp' = o
  /\ UNCHANGED notInput

\* ConnectionManager.handleJoinGame: a player joins under an id no connected
\* player has
InputJoin ==
  \E id \in InputIds \ Keys(iqPending) :
    /\ SetInput(IQ_addPlayer(InputRoom, id), iqReceived, [name |-> "addPlayer"])

\* ConnectionManager.handleDisconnect: a connected player leaves; the id is
\* free for another player, and the inputs recorded under it are dropped
InputLeave ==
  \E id \in Keys(iqPending) :
    /\ SetInput([IQ_removePlayer(InputRoom, id) EXCEPT !.applied[id] = <<>>],
                [iqReceived EXCEPT ![id] = 0], [name |-> "removePlayer"])

\* ConnectionManager.handleMessage: an input of a connected player arrives
InputArrive ==
  \E id \in Keys(iqPending) :
    /\ Received(InputIds) < MaxInputs
    /\ SetInput(IQ_handleInput(InputRoom, id, iqReceived[id] + 1),
                [iqReceived EXCEPT ![id] = @ + 1], [name |-> "handleInput"])

InputTick ==
  /\ SetInput(IQ_tick(InputRoom), iqReceived,
              [name |-> "tick",
               batch |-> \E id \in InputIds :
                           Len(iqApplied'[id]) >= Len(iqApplied[id]) + 2,
               skipped |-> /\ iqPhase = "playing"
                           /\ \E i \in 1..Len(iqPending) :
                                /\ iqPending[i].inputs # <<>>
                                /\ MapHas(iqPlayers, iqPending[i].id)
                                /\ ~MapGet(iqPlayers, iqPending[i].id).isAlive])

\* a countdown reaches zero, or a join fills a waiting room
InputStartNewGame ==
  /\ iqPhase # "playing"
  /\ SetInput(IQ_startNewGame(InputRoom), iqReceived, [name |-> "startNewGame"])

\* applyHit kills a player during a match
InputDeath ==
  \E id \in Keys(iqPlayers) :
    /\ iqPhase = "playing"
    /\ MapGet(iqPlayers, id).isAlive
    /\ SetInput([InputRoom EXCEPT
                   !.players = MapSet(@, [MapGet(@, id) EXCEPT
                                            !.isAlive = FALSE])],
                iqReceived, [name |-> "applyHit"])

\* handleGameOver: the match ends and the countdown to the next starts
InputGameOver ==
  /\ iqPhase = "playing"
  /\ SetInput([InputRoom EXCEPT !.phase = "countdown"], iqReceived,
              [name |-> "handleGameOver"])

\* ------------------------------------------------------------------------
\* GameRoom.tick over the length of a cooldown: a match of the players p1
\* and p2 in which the inputs of p1 raise one ability, abAbility, and p2
\* stands by (and may leave, which ends the match). Projectiles are not
\* followed.
\* ------------------------------------------------------------------------
CASTER == "p1"

TARGET == "p2"

AbilityRoom ==
  [phase |-> abPhase, connectedPlayers |-> [i \in 1..Len(abPlayers) |->
                                              abPlayers[i].id],
   players |-> abPlayers, projectiles |-> <<>>, pendingInputs |-> <<>>,
   currentTick |-> abTick, countdownSeconds |-> 0,
   countdownIntervalId |-> NO_TIMER, timers |-> {}, sent |-> <<>>]

\* the last tick to which a match is followed
AbilityHorizon ==
  cooldownMsToTicks(ABILITY_COOLDOWNS[abAbility]) + MaxFirstUse + MaxExtraTicks

\* the state after startNewGame with p1 and p2 connected
AbilityInit ==
  /\ abPhase = "playing"
  /\ abPlayers = <<createDefaultPlayerState(CASTER),
                   createDefaultPlayerState(TARGET)>>
  /\ abTick = 0
  /\ abAbility \in Abilities
  /\ abOp = [name |-> "startNewGame"]

\* before the room is created
AbilityIdle ==
  /\ abPhase = "waiting_for_players"
  /\ abPlayers = <<>>
  /\ abTick = 0
  /\ abAbility = "primaryFire"
  /\ abOp = [name |-> "init"]

SetAbility(r, o) ==
  /\ abPhase' = r.phase
  /\ abPlayers' = r.players
  /\ abTick' = r.currentTick
  /\ abOp' = o
  /\ UNCHANGED <<abAbility, notAbility>>

\* the effect of a trigger the clients see: the projectile, or the message
\* of the blast or of the ray
Fired(r) ==
  \/ r.projectiles # <<>>
  \/ \E i \in 1..Len(r.sent) : r.sent[i].type \in {"NOVA_BLAST", "ARCANE_RAY"}

\* the inputs of p1 that a tick may find queued: p1 first raises the flag in
\* the first MaxFirstUse ticks of the match
AbilityInputs ==
  IF \/ abTick < MaxFirstUse
     \/ MapGet(abPlayers, CASTER).abilities[abAbility].lastUsed # NEVER_USED
  THEN {{}, {abAbility}}
  ELSE {{}}

\* a tick of the match, with the one input of p1 it finds queued
AbilityTick ==
  /\ abTick < AbilityHorizon
  /\ abPhase = "playing"
  /\ \E input \in AbilityInputs :
     \E near \in (IF "novaBlast" \in input /\ MapHas(abPlayers, TARGET)
                  THEN {{}, {{CASTER, TARGET}}} ELSE {{}}),
        line \in (IF "arcaneRay" \in input /\ MapHas(abPlayers, TARGET)
                  THEN {<<>>, <<TARGET>>} ELSE {<<>>}),
        grounded \in (IF "launchJump" \in input THEN BOOLEAN ELSE {TRUE}) :
       LET r0 == [AbilityRoom EXCEPT !.currentTick = @ + 1]
           r1 == applyInput(r0, CASTER, input, near, [id \in {CASTER} |-> line],
                            grounded)
       IN SetAbility(updateCooldowns(r1),
                     [name |-> "tick", from |-> "playing", input |-> input,
                      fired |-> Fired(r1),
                      alone |-> near = {} /\ line = <<>>])

\* a tick outside a match
AbilityIdleTick ==
  /\ abTick < AbilityHorizon
  /\ abPhase # "playing"
  /\ SetAbility([AbilityRoom EXCEPT !.currentTick = @ + 1],
                [name |-> "tick", from |-> abPhase, input |-> {},
                 fired |-> FALSE, alone |-> TRUE])

\* the abilities of a tick processed, and then, once, updateAllCooldowns
CooldownTick ==
  /\ abTick < AbilityHorizon
  /\ \E input \in AbilityInputs :
     \E grounded \in (IF "launchJump" \in input THEN BOOLEAN ELSE {TRUE}) :
       LET r0 == [AbilityRoom EXCEPT !.currentTick = @ + 1]
           r1 == applyInput(r0, CASTER, input, {}, [id \in {CASTER} |-> <<>>],
                            grounded)
       IN SetAbility([r1 EXCEPT !.players = updateAllCooldowns(@, r1.currentTick)],
                     [name |-> "tick", from |-> "playing", input |-> input,
                      fired |-> Fired(r1), alone |-> TRUE])

\* p2 leaves during the match
AbilityLeave ==
  /\ abPhase = "playing"
  /\ MapHas(abPlayers, TARGET)
  /\ SetAbility(removePlayer(AbilityRoom, TARGET), [name |-> "removePlayer"])

\* ------------------------------------------------------------------------
\* GameRoom.tick on the projectiles: a match followed from startNewGame
\* ------------------------------------------------------------------------
THIRD == "p3"

ProjectileRoom ==
  [phase |-> pjPhase, connectedPlayers |-> [i \in 1..Len(pjPlayers) |->
                                              pjPlayers[i].id],
   players |-> pjPlayers, projectiles |-> pjProjectiles,
   pendingInputs |-> <<>>, currentTick |-> pjTick, countdownSeconds |-> 0,
   countdownIntervalId |-> NO_TIMER, timers |-> {}, sent |-> <<>>]

\* the last tick to which the flight of a projectile is followed
ProjectileHorizon ==
  cooldownMsToTicks(PRIMARY_FIRE_LIFETIME_MS) + MaxFirstUse + MaxExtraTicks

\* before the room is created
ProjectileIdle ==
  /\ pjPhase = "waiting_for_players"
  /\ pjPlayers = <<>>
  /\ pjProjectiles = <<>>
  /\ pjTick = 0
  /\ pjOp = [name |-> "init"]

\* the state after startNewGame with p1 and p2 connected
ProjectileInit ==
  /\ pjPhase = "playing"
  /\ pjPlayers = <<createDefaultPlayerState(CASTER),
                   createDefaultPlayerState(TARGET)>>
  /\ pjProjectiles = <<>>
  /\ pjTick = 0
  /\ pjOp = [name |-> "startNewGame"]

\* the state after startNewGame with p1, p2 and p3 connected
CollisionInit ==
  /\ pjPhase = "playing"
  /\ pjPlayers = <<createDefaultPlayerState(CASTER),
                   createDefaultPlayerState(TARGET),
                   createDefaultPlayerState(THIRD)>>
  /\ pjProjectiles = <<>>
  /\ pjTick = 0
  /\ pjOp = [name |-> "startNewGame"]

SetProjectile(r, o) ==
  /\ pjPhase' = r.phase
  /\ pjPlayers' = r.players
  /\ pjProjectiles' = r.projectiles
  /\ pjTick' = r.currentTick
  /\ pjOp' = o
  /\ UNCHANGED notProjectile

\* the projectiles of the snapshot among the messages of a tick
Snapshot(r) ==
  r.sent[CHOOSE i \in 1..Len(r.sent) : r.sent[i].type = "GAME_STATE"].projectiles

\* health and isAlive of the players, as checkProjectileCollisions finds them
AtCheck(pl) ==
  [i \in 1..Len(pl) |->
     [id |-> pl[i].id, isAlive |-> pl[i].isAlive, health |-> pl[i].health]]

\* a tick of the match: queues are the entries of pendingInputs it finds
PlayingTick(queues, nearSets, lineSets, overlapSets) ==
  \E near \in nearSets, ray \in [Keys(queues) -> lineSets] :
    LET r0 == [ProjectileRoom EXCEPT !.currentTick = @ + 1,
                                     !.pendingInputs = queues]
        r1 == processInputs(r0, near, ray)
    IN \E fate \in [Keys(r1.projectiles) -> {"arena", "none"}],
          overlaps \in [Keys(r1.projectiles) -> overlapSets] :
         LET r2 == advanceProjectiles(r1, fate)
             hits == checkProjectileCollisions(r2.players, r2.projectiles,
                                               overlaps)
         IN SetProjectile(tickAfterInputs(r1, fate, overlaps),
                          [name |-> "tick", from |-> "playing",
                           fired |-> r1.projectiles,
                           arena |-> {id \in Keys(r1.projectiles) :
                                        fate[id] = "arena"},
                           checked |-> AtCheck(r2.players),
                           hits |-> hits,
                           snapshot |->
                             Snapshot(tickAfterInputs(r1, fate, overlaps))])

\* the flight of the projectiles: in the first MaxFirstUse ticks p1 may use
\* every ability and p2 may fire; a projectile meets nobody or everybody
ProjectileTick ==
  /\ pjTick < ProjectileHorizon
  /\ pjPhase = "playing"
  /\ \E input1 \in (IF pjTick < MaxFirstUse THEN Inputs ELSE {{}}),
        input2 \in (IF pjTick < MaxFirstUse
                    THEN {{}, {"primaryFire"}} ELSE {{}}) :
       PlayingTick(<<[id |-> CASTER, inputs |-> <<input1>>],
                     [id |-> TARGET, inputs |-> <<input2>>]>>,
                   IF "novaBlast" \in input1 THEN {{}, {{CASTER, TARGET}}}
                   ELSE {{}},
                   IF "arcaneRay" \in input1 THEN {<<>>, <<TARGET>>}
                   ELSE {<<>>},
                   {{}, PlayerIds})

\* a tick outside a match
ProjectileIdleTick ==
  /\ pjTick < ProjectileHorizon
  /\ pjPhase # "playing"
  /\ LET r == broadcastState([ProjectileRoom EXCEPT !.currentTick = @ + 1])
     IN SetProjectile(r, [name |-> "tick", from |-> pjPhase,
                          fired |-> pjProjectiles, arena |-> {},
                          checked |-> <<>>, hits |-> <<>>,
                          snapshot |-> Snapshot(r)])

\* p2 leaves during the match
ProjectileLeave ==
  /\ pjPhase = "playing"
  /\ MapHas(pjPlayers, TARGET)
  /\ SetProjectile(removePlayer(ProjectileRoom, TARGET),
                   [name |-> "removePlayer"])

\* the first ticks of a match of three: p1 and p2 use their abilities, and
\* the projectiles meet nobody, p3, or everybody
CollisionTick ==
  /\ pjTick < MaxCollisionTick
  /\ pjPhase = "playing"
  /\ \E input1 \in Inputs, input2 \in Inputs :
       PlayingTick(<<[id |-> CASTER, inputs |-> <<input1>>],
                     [id |-> TARGET, inputs |-> <<input2>>]>>,
                   {{}, Pairs}, {<<>>, <<THIRD>>},
                   {{}, {THIRD}, PlayerIds})

\* ------------------------------------------------------------------------
\* GameRoom.tick and removePlayer when every player attacks: a match of two
\* or of three, followed from startNewGame
\* ------------------------------------------------------------------------
ShowdownInit ==
  /\ pjPhase = "playing"
  /\ pjPlayers \in {<<createDefaultPlayerState(CASTER),
                      createDefaultPlayerState(TARGET)>>,
                    <<createDefaultPlayerState(CASTER),
                      createDefaultPlayerState(TARGET),
                      createDefaultPlayerState(THIRD)>>}
  /\ pjProjectiles = <<>>
  /\ pjTick = 0
  /\ pjOp = [name |-> "startNewGame"]

\* a tick of the match: in the first MaxFirstUse ticks every player may use
\* every ability; a blast reaches nobody or everybody, a ray the first
\* living player of the map or nobody, a projectile nobody or everybody
ShowdownTick ==
  /\ pjTick < MaxShowdownTick
  /\ pjPhase = "playing"
  /\ \E inputs \in [Keys(pjPlayers) ->
                      (IF pjTick < MaxFirstUse THEN Inputs ELSE {{}})],
        near \in {{}, Pairs},
        ray \in [Keys(pjPlayers) -> {<<>>, IdOrder}] :
       LET r0 == [ProjectileRoom EXCEPT
                    !.currentTick = @ + 1,
                    !.pendingInputs =
                       [i \in 1..Len(pjPlayers) |->
                          [id |-> pjPlayers[i].id,
                           inputs |-> <<inputs[pjPlayers[i].id]>>]]]
       IN \E r1 \in {processInputs(r0, near, ray)} :
          \E overlaps \in [Keys(r1.projectiles) -> {{}, PlayerIds}] :
          \E r2 \in {tickAfterInputs(r1, [id \in Keys(r1.projectiles) |-> "none"],
                                     overlaps)} :
            SetProjectile(r2, [name |-> "tick", from |-> "playing",
                               sent |-> r2.sent])

\* a tick outside a match
ShowdownIdleTick ==
  /\ pjTick < MaxShowdownTick
  /\ pjPhase # "playing"
  /\ LET r == broadcastState([ProjectileRoom EXCEPT !.currentTick = @ + 1])
     IN SetProjectile(r, [name |-> "tick", from |-> pjPhase, sent |-> r.sent])

\* a player leaves, in any phase
ShowdownLeave ==
  \E id \in Keys(pjPlayers) :
    LET r == removePlayer(ProjectileRoom, id)
    IN SetProjectile(r, [name |-> "removePlayer", from |-> pjPhase,
                         sent |-> r.sent])

\* ------------------------------------------------------------------------
\* HealthRegenSystem.update on the player maps of two players
\* ------------------------------------------------------------------------
\* player.lastDamageTick = tick, as the callers that track damage set it
WithLastDamageTick(player, tick) ==
  [f \in DOMAIN player \cup {"lastDamageTick"} |->
     IF f = "lastDamageTick" THEN tick ELSE player[f]]

\* a player as a match leaves it: dead, or alive with some health missing;
\* with the tick of the last damage, or without the field
RegenPlayers(id) ==
  LET shapes ==
        {[createDefaultPlayerState(id) EXCEPT !.health = 0, !.isAlive = FALSE]}
        \cup {[createDefaultPlayerState(id) EXCEPT !.health = MAX_HEALTH - m] :
                m \in 0..MaxRegenMissing}
  IN shapes \cup {WithLastDamageTick(p, t) : p \in shapes, t \in 0..MaxLastDamage}

RegenIdle ==
  /\ rgPlayers = <<>>
  /\ rgTick = 0
  /\ rgDelta = 1
  /\ rgResult = <<>>

RegenInit ==
  /\ \E a \in RegenPlayers(CASTER), b \in RegenPlayers(TARGET) :
       rgPlayers = <<a, b>>
  /\ rgTick \in (delayTicks - 1)..(delayTicks + MaxRegenSlack)
  /\ rgDelta \in 1..MaxRegenDelta
  /\ rgResult = <<>>

\* update(players, currentTick, deltaSeconds)
RegenUpdate ==
  /\ rgResult = <<>>
  /\ rgResult' = <<healthRegenUpdate(rgPlayers, rgTick, rgDelta)>>
  /\ UNCHANGED <<rgPlayers, rgTick, rgDelta, notRegen>>

\* ------------------------------------------------------------------------
\* The first trigger of a newly created player: applyInput, at any tick, on
\* a player as createDefaultPlayerState returns it (isGrounded is true)
\* ------------------------------------------------------------------------
NewPlayerIdle ==
  /\ npTick = 0
  /\ npAbility = "primaryFire"
  /\ npResult = <<>>

NewPlayerInit ==
  /\ npTick \in 0..MaxNewPlayerTick
  /\ npAbility \in Abilities
  /\ npResult = <<>>

NewPlayerRoom ==
  [phase |-> "playing", connectedPlayers |-> <<CASTER, TARGET>>,
   players |-> <<createDefaultPlayerState(CASTER),
                 createDefaultPlayerState(TARGET)>>,
   projectiles |-> <<>>, pendingInputs |-> <<>>, currentTick |-> npTick,
   countdownSeconds |-> 0, countdownIntervalId |-> NO_TIMER, timers |-> {},
   sent |-> <<>>]

NewPlayerTrigger ==
  /\ npResult = <<>>
  /\ LET r == applyInput(NewPlayerRoom, CASTER, {npAbility}, {},
                         [id \in {CASTER} |-> <<>>], TRUE)
     IN npResult' = <<[player |-> MapGet(r.players, CASTER),
                       fired |-> Fired(r)]>>
  /\ UNCHANGED <<npTick, npAbility, notNewPlayer>>

\* ------------------------------------------------------------------------
\* NovaBlastSystem.fireNovaBlast on placed players
\* ------------------------------------------------------------------------
\* player.position = position, as a tick of movement or a test sets it
WithPosition(player, position) ==
  [f \in DOMAIN player \cup {"position"} |->
     IF f = "position" THEN position ELSE player[f]]

\* the squared 3D distance of two positions
DistSq(p, q) ==
  (p.x - q.x) * (p.x - q.x) + (p.y - q.y) * (p.y - q.y)
    + (p.z - q.z) * (p.z - q.z)

\* fireNovaBlast with < for <= in the radius test
fireNovaBlast_inside(caster, pl, tick) ==
  LET pl1 == MapSet(pl, recordAbilityUse(caster, "novaBlast", tick))
      hit == SelectSeq(pl1, LAMBDA p :
               /\ p.id # caster.id
               /\ p.isAlive
               /\ DistSq(p.position, caster.position)
                    < NOVA_BLAST_RADIUS * NOVA_BLAST_RADIUS)
  IN IF ~isAbilityReady(caster.abilities["novaBlast"].lastUsed,
                        NOVA_BLAST_COOLDOWN_MS, tick)
     THEN [result |-> <<>>, players |-> pl]
     ELSE [result |-> <<[casterId |-> caster.id,
                         casterPosition |-> caster.position,
                         hitPlayerIds |-> [i \in 1..Len(hit) |-> hit[i].id],
                         damage |-> NOVA_BLAST_DAMAGE]>>,
           players |-> pl1]

\* fireNovaBlast: the result (a sequence holding it, empty for null) and the
\* player map the call leaves
fireNovaBlast(caster, pl, tick) ==
  LET pl1 == MapSet(pl, recordAbilityUse(caster, "novaBlast", tick))
      hit == SelectSeq(pl1, LAMBDA p :
               /\ p.id # caster.id
               /\ p.isAlive
               /\ DistSq(p.position, caster.position)
                    <= NOVA_BLAST_RADIUS * NOVA_BLAST_RADIUS)
  IN IF ~isAbilityReady(caster.abilities["novaBlast"].lastUsed,
                        NOVA_BLAST_COOLDOWN_MS, tick)
     THEN [result |-> <<>>, players |-> pl]
     ELSE [result |-> <<[casterId |-> caster.id,
                         casterPosition |-> caster.position,
                         hitPlayerIds |-> [i \in 1..Len(hit) |-> hit[i].id],
                         damage |-> NOVA_BLAST_DAMAGE]>>,
           players |-> pl1]

GeometryIdle ==
  /\ gePlayers = <<>>
  /\ geTick = 0
  /\ geResult = <<>>

\* a player alive, or dead as applyHit leaves them
AliveOrDead(player) ==
  {player, [player EXCEPT !.health = 0, !.isAlive = FALSE]}

\* the offsets along an axis at which a target of the blast is placed: on
\* the caster, at the legs of the 3-4-5 triangle, at the radius and beyond it
NovaOffsets ==
  {0, 3 * UNITS_PER_METRE, 4 * UNITS_PER_METRE, NOVA_BLAST_RADIUS}
    \cup {NOVA_BLAST_RADIUS + e : e \in 1..MaxBeyondRadius}

\* the caster p1 where createDefaultPlayerState puts a player, ready or
\* having just used the blast; p2 anywhere on the grid of offsets and p3 on
\* the x axis, each alive or dead
NovaInit ==
  /\ geTick = 1
  /\ geResult = <<>>
  /\ \E used \in BOOLEAN, x2, y2, z2, x3 \in NovaOffsets :
     \E p2 \in AliveOrDead(WithPosition(createDefaultPlayerState(TARGET),
                  [x |-> x2, y |-> UNITS_PER_METRE + y2, z |-> z2])),
        p3 \in AliveOrDead(WithPosition(createDefaultPlayerState(THIRD),
                  [x |-> x3, y |-> UNITS_PER_METRE, z |-> 0])) :
       LET p1 == WithPosition(createDefaultPlayerState(CASTER),
                              [x |-> 0, y |-> UNITS_PER_METRE, z |-> 0])
       IN gePlayers = <<(IF used THEN recordAbilityUse(p1, "novaBlast", 0)
                         ELSE p1), p2, p3>>

NovaFire ==
  /\ geResult = <<>>
  /\ geResult' = <<fireNovaBlast(MapGet(gePlayers, CASTER), gePlayers, geTick)>>
  /\ UNCHANGED <<gePlayers, geTick, notGeometry>>

\* ------------------------------------------------------------------------
\* ArcaneRaySystem.fireArcaneRay on placed players; the caster looks along
\* an axis of the arena: yaw counts quarter turns and pitch is 0
\* ------------------------------------------------------------------------
\* Math.sin and Math.cos of yaw quarter turns
QuarterSin(yaw) == <<0, 1, 0, -1>>[(yaw % 4) + 1]

QuarterCos(yaw) == <<1, 0, -1, 0>>[(yaw % 4) + 1]

\* getDirectionFromLook with pitch 0: cosPitch is 1 and Math.sin(pitch) is 0
getDirectionFromLook(yaw) ==
  [x |-> -QuarterSin(yaw), y |-> 0, z |-> -QuarterCos(yaw)]

\* Math.sqrt of a perfect square (the players are placed so that the
\* discriminant is one)
Sqrt(n) == CHOOSE k \in 0..(2 * PLAYER_RADIUS) : k * k = n

\* rayIntersectsPlayer for a horizontal ray: the distance to the hitbox in a
\* sequence, empty for null. direction.y is 0, so that hitY is origin.y and
\* checkCylinderCaps returns null
rayIntersectsPlayer(origin, direction, player) ==
  LET cylinderBottomY == player.position.y - PLAYER_HEIGHT \div 2
      cylinderTopY == player.position.y + PLAYER_HEIGHT \div 2
      dx == origin.x - player.position.x
      dz == origin.z - player.position.z
      a == direction.x * direction.x + direction.z * direction.z
      b == 2 * (dx * direction.x + dz * direction.z)
      c == dx * dx + dz * dz - PLAYER_RADIUS * PLAYER_RADIUS
      discriminant == b * b - 4 * a * c
      t1 == (-b - Sqrt(discriminant)) \div (2 * a)
      t2 == (-b + Sqrt(discriminant)) \div (2 * a)
      inside == origin.y >= cylinderBottomY /\ origin.y <= cylinderTopY
  IN IF discriminant < 0 THEN <<>>
     ELSE IF Min(t1, t2) >= 0 /\ inside THEN <<Min(t1, t2)>>
     ELSE IF (IF t1 >= t2 THEN t1 ELSE t2) >= 0 /\ inside
          THEN <<IF t1 >= t2 THEN t1 ELSE t2>>
     ELSE <<>>

\* the loop of findClosestHit over the players from index i on; closestHit
\* is a sequence holding the hit so far, empty for null
RECURSIVE closestHitFrom(_, _, _, _, _, _)
closestHitFrom(origin, direction, casterId, pl, i, closestHit) ==
  IF i > Len(pl) THEN closestHit
  ELSE LET player == pl[i]
           hitDistance == rayIntersectsPlayer(origin, direction, player)
       IN IF player.id = casterId \/ ~player.isAlive \/ hitDistance = <<>>
          THEN closestHitFrom(origin, direction, casterId, pl, i + 1,
                              closestHit)
          ELSE IF closestHit = <<>> \/ hitDistance[1] < closestHit[1].distance
          THEN closestHitFrom(origin, direction, casterId, pl, i + 1,
                 <<[playerId |-> player.id, distance |-> hitDistance[1]]>>)
          ELSE closestHitFrom(origin, direction, casterId, pl, i + 1,
                              closestHit)

\* findClosestHit that keeps the first player the ray meets in map order
findClosestHitAlong_first(origin, direction, casterId, pl) ==
  LET met == SelectSeq(pl, LAMBDA p :
               /\ p.id # casterId /\ p.isAlive
               /\ rayIntersectsPlayer(origin, direction, p) # <<>>)
  IN IF met = <<>> THEN <<>>
     ELSE <<[playerId |-> met[1].id,
             distance |-> rayIntersectsPlayer(origin, direction, met[1])[1]]>>

\* ArcaneRaySystem.findClosestHit on the geometry
findClosestHitAlong(origin, direction, casterId, pl) ==
  closestHitFrom(origin, direction, casterId, pl, 1, <<>>)

\* fireArcaneRay: the result (a sequence holding it, empty for null) and the
\* player map the call leaves
fireArcaneRay(caster, pl, tick) ==
  LET pl1 == MapSet(pl, recordAbilityUse(caster, "arcaneRay", tick))
      origin == [x |-> caster.position.x,
                 y |-> caster.position.y + PLAYER_HEIGHT \div 2,
                 z |-> caster.position.z]
      direction == getDirectionFromLook(caster.yaw)
      hitResult == findClosestHitAlong(origin, direction, caster.id, pl1)
      reach == IF hitResult # <<>> THEN hitResult[1].distance
               ELSE ARCANE_RAY_RANGE
  IN IF ~(tick - caster.abilities["arcaneRay"].lastUsed
            >= cooldownMsToTicks(ARCANE_RAY_COOLDOWN_MS))
     THEN [result |-> <<>>, players |-> pl]
     ELSE [result |->
             <<[origin |-> origin,
                endpoint |-> [x |-> origin.x + direction.x * reach,
                              y |-> origin.y + direction.y * reach,
                              z |-> origin.z + direction.z * reach],
                hitPlayerId |-> IF hitResult # <<>>
                                THEN hitResult[1].playerId ELSE NULL,
                damage |-> ARCANE_RAY_DAMAGE]>>,
           players |-> pl1]

\* caster.yaw = yaw
WithYaw(player, yaw) ==
  [f \in DOMAIN player \cup {"yaw"} |-> IF f = "yaw" THEN yaw ELSE player[f]]

\* the offsets of p2 from the caster along the x and the z axis: beside the
\* ray by nothing, a part of the radius, the radius or more, or far along it
RayOffsets ==
  {0, (3 * PLAYER_RADIUS) \div 5, (4 * PLAYER_RADIUS) \div 5, PLAYER_RADIUS,
   NOVA_BLAST_RADIUS, -NOVA_BLAST_RADIUS}
    \cup {PLAYER_RADIUS + e : e \in 1..MaxBeyondRadius}

\* the heights of p2: its hitbox ends just under the eye of the caster, at
\* it, or starts at it or just over it
RayHeights ==
  {UNITS_PER_METRE, UNITS_PER_METRE + PLAYER_HEIGHT}
    \cup {UNITS_PER_METRE - e : e \in 1..MaxBeyondRadius}
    \cup {UNITS_PER_METRE + PLAYER_HEIGHT + e : e \in 1..MaxBeyondRadius}

\* the places of p3: on an axis, nearer or farther than p2 can be
ThirdPlaces ==
  {[x |-> s * d, y |-> UNITS_PER_METRE, z |-> 0] :
     s \in {1, -1}, d \in {NOVA_BLAST_RADIUS \div 2, 2 * NOVA_BLAST_RADIUS}}
  \cup
  {[x |-> 0, y |-> UNITS_PER_METRE, z |-> s * d] :
     s \in {1, -1}, d \in {NOVA_BLAST_RADIUS \div 2, 2 * NOVA_BLAST_RADIUS}}

\* resolvePlayerCollisions leaves two players 2 * PLAYER_RADIUS apart
Apart(p, q) ==
  (p.x - q.x) * (p.x - q.x) + (p.z - q.z) * (p.z - q.z)
    >= (2 * PLAYER_RADIUS) * (2 * PLAYER_RADIUS)

\* the caster p1 looks along an axis, ready or having just used the ray; p2
\* and p3 are placed apart from it, each alive or dead
RayInit ==
  /\ geTick = 1
  /\ geResult = <<>>
  /\ \E used \in BOOLEAN, yaw \in 0..3, x2, z2 \in RayOffsets,
        y2 \in RayHeights, place3 \in ThirdPlaces :
     \E p2 \in AliveOrDead(WithPosition(createDefaultPlayerState(TARGET),
                  [x |-> x2, y |-> y2, z |-> z2])),
        p3 \in AliveOrDead(WithPosition(createDefaultPlayerState(THIRD),
                  place3)) :
       LET p1 == WithYaw(WithPosition(createDefaultPlayerState(CASTER),
                           [x |-> 0, y |-> UNITS_PER_METRE, z |-> 0]), yaw)
       IN /\ Apart(p1.position, p2.position)
          /\ gePlayers = <<(IF used THEN recordAbilityUse(p1, "arcaneRay", 0)
                            ELSE p1), p2, p3>>

RayFire ==
  /\ geResult = <<>>
  /\ geResult' = <<fireArcaneRay(MapGet(gePlayers, CASTER), gePlayers, geTick)>>
  /\ UNCHANGED <<gePlayers, geTick, notGeometry>>


\* ------------------------------------------------------------------------
\* GameRoom.applyInput, one action at a time, on a player with its velocity:
\* p1 attempts one action again and again while the ticks pass, p2 stands in
\* front of it, inside the blast radius
\* ------------------------------------------------------------------------
\* player.velocity = velocity and player.isGrounded = isGrounded
WithPhysics(player, velocity, isGrounded) ==
  [f \in DOMAIN player \cup {"velocity", "isGrounded"} |->
     IF f = "velocity" THEN velocity
     ELSE IF f = "isGrounded" THEN isGrounded ELSE player[f]]

\* PhysicsSystem.applyJump: the player it leaves and the value it returns
PhysicsSystem_applyJump(player) ==
  IF player.isGrounded
  THEN [player |-> [player EXCEPT !.velocity.y = JUMP_VELOCITY,
                                  !.isGrounded = FALSE],
        returned |-> TRUE]
  ELSE [player |-> player, returned |-> FALSE]

\* Math.sqrt(x * x + z * z) of a velocity along an axis
Magnitude(x, z) ==
  CHOOSE k \in 0..((DASH_DISTANCE * 1000 * VELOCITY_UNITS) \div DASH_DURATION_MS) :
    k * k = x * x + z * z

\* PhysicsSystem.applyDash
PhysicsSystem_applyDash(player, yaw, tick) ==
  LET cooldownTicks == (DASH_COOLDOWN_MS * 60 + 999) \div 1000
      ticksSinceLastUse == tick - player.abilities["dash"].lastUsed
      velMagnitude == Magnitude(player.velocity.x, player.velocity.z)
      moving == 10 * velMagnitude > VELOCITY_UNITS
      dashDirX == IF moving THEN player.velocity.x \div velMagnitude
                  ELSE -QuarterSin(yaw)
      dashDirZ == IF moving THEN player.velocity.z \div velMagnitude
                  ELSE -QuarterCos(yaw)
      dashSpeed == (DASH_DISTANCE * 1000 * VELOCITY_UNITS) \div DASH_DURATION_MS
  IN IF ticksSinceLastUse < cooldownTicks /\ player.abilities["dash"].lastUsed # 0
     THEN [player |-> player, returned |-> FALSE]
     ELSE [player |->
             recordAbilityUse([player EXCEPT !.velocity.x = dashDirX * dashSpeed,
                                             !.velocity.z = dashDirZ * dashSpeed],
                              "dash", tick),
           returned |-> TRUE]

\* applyLaunchJump that launches an airborne player too
PhysicsSystem_applyLaunchJump_airborne(player, yaw, tick) ==
  LET cooldownTicks == (LAUNCH_JUMP_COOLDOWN_MS * 60 + 999) \div 1000
      ticksSinceLastUse == tick - player.abilities["launchJump"].lastUsed
  IN IF /\ ticksSinceLastUse < cooldownTicks
        /\ player.abilities["launchJump"].lastUsed # 0
     THEN [player |-> player, returned |-> FALSE]
     ELSE [player |->
             recordAbilityUse(
               [player EXCEPT
                  !.velocity.y = LAUNCH_JUMP_VERTICAL_VELOCITY,
                  !.velocity.x = @ + (-QuarterSin(yaw)) * LAUNCH_JUMP_HORIZONTAL_BOOST,
                  !.velocity.z = @ + (-QuarterCos(yaw)) * LAUNCH_JUMP_HORIZONTAL_BOOST,
                  !.isGrounded = FALSE],
               "launchJump", tick),
           returned |-> TRUE]

\* PhysicsSystem.applyLaunchJump
PhysicsSystem_applyLaunchJump(player, yaw, tick) ==
  LET cooldownTicks == (LAUNCH_JUMP_COOLDOWN_MS * 60 + 999) \div 1000
      ticksSinceLastUse == tick - player.abilities["launchJump"].lastUsed
  IN IF /\ ticksSinceLastUse < cooldownTicks
        /\ player.abilities["launchJump"].lastUsed # 0
     THEN [player |-> player, returned |-> FALSE]
     ELSE IF ~player.isGrounded
     THEN [player |-> player, returned |-> FALSE]
     ELSE [player |->
             recordAbilityUse(
               [player EXCEPT
                  !.velocity.y = LAUNCH_JUMP_VERTICAL_VELOCITY,
                  !.velocity.x = @ + (-QuarterSin(yaw)) * LAUNCH_JUMP_HORIZONTAL_BOOST,
                  !.velocity.z = @ + (-QuarterCos(yaw)) * LAUNCH_JUMP_HORIZONTAL_BOOST,
                  !.isGrounded = FALSE],
               "launchJump", tick),
           returned |-> TRUE]

\* ProjectileSystem.canFire
canFire(player, tick) ==
  tick - player.abilities["primaryFire"].lastUsed
    >= cooldownMsToTicks(PRIMARY_FIRE_COOLDOWN_MS)

\* applyInput, one action of the input: the room it leaves and the value the
\* system called returned (for the blast and the ray: whether the result is
\* not null)
attemptAction(r, playerId, action) ==
  LET player == MapGet(r.players, playerId)
      jump == PhysicsSystem_applyJump(player)
      dash == PhysicsSystem_applyDash(player, player.yaw, r.currentTick)
      launch == PhysicsSystem_applyLaunchJump(player, player.yaw, r.currentTick)
      nova == fireNovaBlast(player, r.players, r.currentTick)
      ray == fireArcaneRay(player, r.players, r.currentTick)
  IN CASE action = "jump" ->
            [room |-> [r EXCEPT !.players = MapSet(@, jump.player)],
             returned |-> jump.returned]
       [] action = "primaryFire" ->
            [room |-> applyPrimaryFire(r, playerId),
             returned |-> canFire(player, r.currentTick)]
       [] action = "dash" ->
            [room |-> [r EXCEPT !.players = MapSet(@, dash.player)],
             returned |-> dash.returned]
       [] action = "launchJump" ->
            [room |-> [r EXCEPT !.players = MapSet(@, launch.player)],
             returned |-> launch.returned]
       [] action = "novaBlast" ->
            [room |-> IF nova.result = <<>> THEN r
                      ELSE applyHits(broadcast([r EXCEPT !.players = nova.players],
                                               [type |-> "NOVA_BLAST"]),
                                     nova.result[1].hitPlayerIds, 1,
                                     nova.result[1].casterId,
                                     nova.result[1].damage),
             returned |-> nova.result # <<>>]
       [] action = "arcaneRay" ->
            [room |-> IF ray.result = <<>> THEN r
                      ELSE IF ray.result[1].hitPlayerId # NULL
                      THEN hitAndDeath(broadcast([r EXCEPT !.players = ray.players],
                                                 [type |-> "ARCANE_RAY"]),
                                       ray.result[1].hitPlayerId, playerId,
                                       ray.result[1].damage)
                      ELSE broadcast([r EXCEPT !.players = ray.players],
                                     [type |-> "ARCANE_RAY"]),
             returned |-> ray.result # <<>>]

AttemptRoom ==
  [phase |-> "playing", connectedPlayers |-> [i \in 1..Len(atPlayers) |->
                                                atPlayers[i].id],
   players |-> atPlayers, projectiles |-> atProjectiles,
   pendingInputs |-> <<>>, currentTick |-> atTick, countdownSeconds |-> 0,
   countdownIntervalId |-> NO_TIMER, timers |-> {}, sent |-> atSent]

\* the last tick to which a match is followed
AttemptHorizon ==
  (IF atAbility \in Abilities
   THEN cooldownMsToTicks(ABILITY_COOLDOWNS[atAbility]) ELSE 0)
    + MaxFirstUse + MaxExtraTicks

\* the state after startNewGame: p1 at the centre, standing or in the air,
\* at rest or walking, looking at p2 or away from it
AttemptInit ==
  /\ atTick = 0
  /\ atProjectiles = <<>>
  /\ atSent = <<>>
  /\ atAbility \in Abilities \cup {"jump"}
  /\ atOp = [name |-> "startNewGame"]
  /\ \E yaw \in 0..1, isGrounded \in BOOLEAN, speed \in {0, PLAYER_SPEED} :
       atPlayers =
         << WithPhysics(
              WithYaw(WithPosition(createDefaultPlayerState(CASTER),
                        [x |-> 0, y |-> UNITS_PER_METRE, z |-> 0]), yaw),
              [x |-> speed, y |-> 0, z |-> 0], isGrounded),
            WithPhysics(
              WithYaw(WithPosition(createDefaultPlayerState(TARGET),
                        [x |-> 0, y |-> UNITS_PER_METRE,
                         z |-> -(2 * PLAYER_RADIUS)]), 0),
              [x |-> 0, y |-> 0, z |-> 0], TRUE) >>

\* before the room is created
AttemptIdle ==
  /\ atPlayers = <<>>
  /\ atProjectiles = <<>>
  /\ atSent = <<>>
  /\ atTick = 0
  /\ atAbility = "jump"
  /\ atOp = [name |-> "init"]

SetAttempt(r, o) ==
  /\ atPlayers' = r.players
  /\ atProjectiles' = r.projectiles
  /\ atSent' = r.sent
  /\ atTick' = r.currentTick
  /\ atOp' = o
  /\ UNCHANGED <<atAbility, notAttempt>>

\* p1 raises the flag of its action in an input of the tick; it first does
\* so in the first MaxFirstUse ticks of the match
AttemptUse ==
  /\ atTick >= 1
  /\ IF atTick <= MaxFirstUse \/ atAbility = "jump" THEN TRUE
     ELSE MapGet(atPlayers, CASTER).abilities[atAbility].lastUsed # NEVER_USED
  /\ LET res == attemptAction(AttemptRoom, CASTER, atAbility)
     IN SetAttempt(res.room, [name |-> "attempt", returned |-> res.returned])

\* the rest of a tick and the start of the next: p1 lands or stays as it is,
\* the cooldowns are updated, currentTick is incremented
AttemptTick ==
  /\ atTick < AttemptHorizon
  /\ \E lands \in BOOLEAN :
       LET p1 == MapGet(atPlayers, CASTER)
           landed == IF lands THEN [p1 EXCEPT !.velocity.y = 0,
                                              !.isGrounded = TRUE]
                     ELSE p1
           r1 == updateCooldowns([AttemptRoom EXCEPT
                                    !.players = MapSet(@, landed)])
       IN SetAttempt([r1 EXCEPT !.currentTick = @ + 1], [name |-> "tick"])

\* ------------------------------------------------------------------------
\* ConnectionManager: joins, socket failures, the close and error events of
\* the sockets, and the broadcast of the snapshot of a tick. ws.send on a
\* socket whose readyState is OPEN does not throw; a socket that fails emits
\* 'error' and 'close', or 'close' alone.
\* ------------------------------------------------------------------------
Sockets == {<<"w1", "w2", "w3", "w4">>[i] : i \in 1..Min(MaxSockets, 4)}

\* the ids uuidv4 hands out, in order
UuidOrder == <<"p1", "p2", "p3", "p4", "p5">>

\* send: ws.send(data) when the socket is open; the client receives the
\* message unless the socket loses what is sent
send(sockets, inbox, ws, message) ==
  IF sockets[ws].readyState = "OPEN" /\ ~sockets[ws].lossy
  THEN [inbox EXCEPT ![ws] = Append(@, message)]
  ELSE inbox

\* the loop of broadcast over connections.values(), from index i on
RECURSIVE broadcastFrom(_, _, _, _, _)
broadcastFrom(conns, i, sockets, inbox, message) ==
  IF i > Len(conns) THEN inbox
  ELSE broadcastFrom(conns, i + 1, sockets,
                     send(sockets, inbox, conns[i].ws, message), message)

\* ConnectionManager.broadcast
CM_broadcast(conns, sockets, inbox, message) ==
  broadcastFrom(conns, 1, sockets, inbox, message)

TransportInit ==
  /\ cnConnections = <<>>
  /\ cnWsToPlayer = [ws \in Sockets |-> NULL]
  /\ cnSockets = [ws \in Sockets |->
                    [readyState |-> "OPEN", lossy |-> FALSE, pending |-> <<>>]]
  /\ cnInbox = [ws \in Sockets |-> <<>>]
  /\ cnRoster = <<>>
  /\ cnJoined = 0
  /\ cnTick = 0
  /\ cnOp = [name |-> "init"]

\* no server
TransportIdle ==
  /\ cnConnections = <<>>
  /\ cnWsToPlayer = <<>>
  /\ cnSockets = <<>>
  /\ cnInbox = <<>>
  /\ cnRoster = <<>>
  /\ cnJoined = 0
  /\ cnTick = 0
  /\ cnOp = [name |-> "idle"]

\* handleMessage, JOIN_GAME: handleJoinGame. uuidv4 never repeats an id
JoinGame ==
  /\ cnJoined < Min(MaxJoins, Len(UuidOrder))
  /\ \E ws \in Sockets :
       LET playerId == UuidOrder[cnJoined + 1]
       IN /\ cnSockets[ws].readyState = "OPEN"
          /\ cnConnections' = MapSet(cnConnections, [id |-> playerId, ws |-> ws])
          /\ cnWsToPlayer' = [cnWsToPlayer EXCEPT ![ws] = playerId]
          /\ cnRoster' = Append(cnRoster, playerId)
          /\ cnInbox' = send(cnSockets, cnInbox, ws,
                             [type |-> "WELCOME", tick |-> cnTick])
          /\ cnJoined' = cnJoined + 1
          /\ cnOp' = [name |-> "join", ws |-> ws, playerId |-> playerId]
          /\ UNCHANGED <<cnSockets, cnTick, notTransport>>

\* an open socket starts to lose what is sent to it (the peer is gone and
\* the socket has not noticed)
SocketBreaks ==
  \E ws \in Sockets :
    /\ cnSockets[ws].readyState = "OPEN"
    /\ ~cnSockets[ws].lossy
    /\ cnSockets' = [cnSockets EXCEPT ![ws].lossy = TRUE]
    /\ cnOp' = [name |-> "break", ws |-> ws]
    /\ UNCHANGED <<cnConnections, cnWsToPlayer, cnInbox, cnRoster, cnJoined,
                   cnTick, notTransport>>

\* an open socket fails or is closed by the peer: it leaves OPEN and will
\* emit 'close' alone, or 'error' and 'close' in either order
SocketFails ==
  \E ws \in Sockets,
     events \in {<<"close">>, <<"error", "close">>, <<"close", "error">>} :
    /\ cnSockets[ws].readyState = "OPEN"
    /\ cnSockets' = [cnSockets EXCEPT ![ws] =
                       [readyState |-> "CLOSING", lossy |-> TRUE,
                        pending |-> events]]
    /\ cnOp' = [name |-> "fail", ws |-> ws]
    /\ UNCHANGED <<cnConnections, cnWsToPlayer, cnInbox, cnRoster, cnJoined,
                   cnTick, notTransport>>

\* a socket emits its next event, and handleDisconnect forgets neither the
\* connection nor the player of the socket
SocketEvent_keep ==
  \E ws \in Sockets :
    /\ cnSockets[ws].pending # <<>>
    /\ LET playerId == cnWsToPlayer[ws]
       IN /\ cnSockets' = [cnSockets EXCEPT
                             ![ws].pending = Tail(@),
                             ![ws].readyState =
                                IF Head(cnSockets[ws].pending) = "close"
                                THEN "CLOSED" ELSE @]
          /\ cnRoster' =
               IF playerId # NULL /\ MapHas(cnConnections, playerId)
               THEN SelectSeq(cnRoster, LAMBDA id : id # playerId)
               ELSE cnRoster
          /\ cnOp' = [name |-> "disconnect", ws |-> ws, removed |-> playerId,
                       invoked |-> /\ playerId # NULL
                                   /\ MapHas(cnConnections, playerId)]
          /\ UNCHANGED <<cnConnections, cnWsToPlayer, cnInbox, cnJoined,
                         cnTick, notTransport>>

\* a socket emits its next event; the 'close' and the 'error' handler both
\* run handleDisconnect
SocketEvent ==
  \E ws \in Sockets :
    /\ cnSockets[ws].pending # <<>>
    /\ LET playerId == cnWsToPlayer[ws]
       IN /\ cnSockets' = [cnSockets EXCEPT
                             ![ws].pending = Tail(@),
                             ![ws].readyState =
                                IF Head(cnSockets[ws].pending) = "close"
                                THEN "CLOSED" ELSE @]
          /\ IF playerId # NULL
             THEN /\ cnRoster' =
                       IF MapHas(cnConnections, playerId)
                       THEN SelectSeq(cnRoster, LAMBDA id : id # playerId)
                       ELSE cnRoster
                  /\ cnConnections' = MapDelete(cnConnections, playerId)
                  /\ cnWsToPlayer' = [cnWsToPlayer EXCEPT ![ws] = NULL]
             ELSE UNCHANGED <<cnRoster, cnConnections, cnWsToPlayer>>
          /\ cnOp' = [name |-> "disconnect", ws |-> ws, removed |-> playerId,
                       invoked |-> /\ playerId # NULL
                                   /\ MapHas(cnConnections, playerId)]
          /\ UNCHANGED <<cnInbox, cnJoined, cnTick, notTransport>>

\* GameRoom.tick: currentTick++ and, last, broadcastState through the
\* broadcaster the connection manager installed
TransportTick ==
  /\ cnTick < MaxBroadcasts
  /\ cnTick' = cnTick + 1
  /\ cnInbox' = CM_broadcast(cnConnections, cnSockets, cnInbox,
                             [type |-> "GAME_STATE", tick |-> cnTick + 1])
  /\ cnOp' = [name |-> "tick"]
  /\ UNCHANGED <<cnConnections, cnWsToPlayer, cnSockets, cnRoster, cnJoined,
                 notTransport>>


\* ------------------------------------------------------------------------
\* ArenaCollisionSystem.resolveCollisions and PhysicsSystem.updatePlayer on
\* one player. Lengths are in units of 1/120 m and velocities in units of
\* 0.5 m/s, so that gravity adds one unit of velocity per tick and a unit of
\* velocity moves the player one unit of length per tick. The arena data are
\* written in centimetres.
\* ------------------------------------------------------------------------
STEP_UNITS == 2

ARENA_UNITS == STEP_UNITS * TICK_RATE

Cm(c) == (c * ARENA_UNITS) \div 100

Max(a, b) == IF a >= b THEN a ELSE b

GRAVITY == -30 * STEP_UNITS

GROUND_LEVEL == 0

ARENA_SIZE == 6000

playerRadius == Cm(40)

playerHeight == Cm(180)

createAABB(position, size) ==
  [min |-> [x |-> Cm(position[1]) - Cm(size[1]) \div 2,
            y |-> Cm(position[2]) - Cm(size[2]) \div 2,
            z |-> Cm(position[3]) - Cm(size[3]) \div 2],
   max |-> [x |-> Cm(position[1]) + Cm(size[1]) \div 2,
            y |-> Cm(position[2]) + Cm(size[2]) \div 2,
            z |-> Cm(position[3]) + Cm(size[3]) \div 2]]

createCylinder(position, height, radius) ==
  [center |-> [x |-> Cm(position[1]), y |-> 0, z |-> Cm(position[3])],
   radius |-> Cm(radius), height |-> Cm(height)]

\* ARENA_COLLISION.walls: the boundary walls and the cover obstacles
walls ==
  << createAABB(<<0, 200, -(ARENA_SIZE \div 2)>>, <<ARENA_SIZE, 400, 100>>),
     createAABB(<<0, 200, ARENA_SIZE \div 2>>, <<ARENA_SIZE, 400, 100>>),
     createAABB(<<-(ARENA_SIZE \div 2), 200, 0>>, <<100, 400, ARENA_SIZE>>),
     createAABB(<<ARENA_SIZE \div 2, 200, 0>>, <<100, 400, ARENA_SIZE>>),
     createAABB(<<-1200, 75, 0>>, <<200, 150, 400>>),
     createAABB(<<1200, 75, 0>>, <<200, 150, 400>>),
     createAABB(<<0, 75, -1200>>, <<400, 150, 200>>),
     createAABB(<<0, 75, 1200>>, <<400, 150, 200>>) >>

\* ARENA_COLLISION.platforms
platforms ==
  << createAABB(<<-1200, 150, 0>>, <<200, 10, 400>>),
     createAABB(<<1200, 150, 0>>, <<200, 10, 400>>),
     createAABB(<<0, 150, -1200>>, <<400, 10, 200>>),
     createAABB(<<0, 150, 1200>>, <<400, 10, 200>>),
     createAABB(<<0, 200, 0>>, <<1200, 50, 1200>>),
     createAABB(<<-2000, 150, -2000>>, <<800, 50, 800>>),
     createAABB(<<2000, 150, -2000>>, <<800, 50, 800>>),
     createAABB(<<-2000, 150, 2000>>, <<800, 50, 800>>),
     createAABB(<<2000, 150, 2000>>, <<800, 50, 800>>),
     createAABB(<<-2000, 400, -2000>>, <<500, 50, 500>>),
     createAABB(<<2000, 400, -2000>>, <<500, 50, 500>>),
     createAABB(<<-2000, 400, 2000>>, <<500, 50, 500>>),
     createAABB(<<2000, 400, 2000>>, <<500, 50, 500>>),
     createAABB(<<-2000, 250, 0>>, <<600, 50, 1000>>),
     createAABB(<<2000, 250, 0>>, <<600, 50, 1000>>),
     createAABB(<<0, 250, -2000>>, <<1000, 50, 600>>),
     createAABB(<<0, 250, 2000>>, <<1000, 50, 600>>),
     createAABB(<<-1000, 500, -1000>>, <<400, 50, 400>>),
     createAABB(<<1000, 500, -1000>>, <<400, 50, 400>>),
     createAABB(<<-1000, 500, 1000>>, <<400, 50, 400>>),
     createAABB(<<1000, 500, 1000>>, <<400, 50, 400>>),
     createAABB(<<0, 600, 0>>, <<600, 50, 600>>) >>

\* ARENA_COLLISION.cylinders
cylinders ==
  << createCylinder(<<-600, 0, -600>>, 600, 50),
     createCylinder(<<600, 0, -600>>, 600, 50),
     createCylinder(<<-600, 0, 600>>, 600, 50),
     createCylinder(<<600, 0, 600>>, 600, 50) >>

\* Math.sqrt of the squared distance of a player pushed along an axis
Root(n) == CHOOSE k \in 0..(playerRadius + Cm(50)) : k * k = n

\* distSquared > 0.0001, in square metres
Apartness(distSquared) == distSquared * 10000 > ARENA_UNITS * ARENA_UNITS

circleOverlapsAABBXZ(x, z, radius, aabb) ==
  LET closestX == Max(aabb.min.x, Min(x, aabb.max.x))
      closestZ == Max(aabb.min.z, Min(z, aabb.max.z))
      distX == x - closestX
      distZ == z - closestZ
  IN distX * distX + distZ * distZ <= radius * radius

resolveCylinderCollision(x, z, radius, cylinder) ==
  LET dx == x - cylinder.center.x
      dz == z - cylinder.center.z
      distSquared == dx * dx + dz * dz
      minDist == radius + cylinder.radius
      dist == Root(distSquared)
  IN IF distSquared < minDist * minDist /\ Apartness(distSquared)
     THEN [x |-> cylinder.center.x + (dx * minDist) \div dist,
           z |-> cylinder.center.z + (dz * minDist) \div dist,
           collided |-> TRUE]
     ELSE [x |-> x, z |-> z, collided |-> FALSE]

resolveWallCollision(x, z, feetY, height, radius, wall) ==
  LET headY == feetY + height
      closestX == Max(wall.min.x, Min(x, wall.max.x))
      closestZ == Max(wall.min.z, Min(z, wall.max.z))
      dx == x - closestX
      dz == z - closestZ
      distSquared == dx * dx + dz * dz
      dist == Root(distSquared)
  IN IF headY <= wall.min.y \/ feetY >= wall.max.y
     THEN [x |-> x, z |-> z, collided |-> FALSE]
     ELSE IF distSquared < radius * radius /\ Apartness(distSquared)
     THEN [x |-> closestX + (dx * radius) \div dist,
           z |-> closestZ + (dz * radius) \div dist,
           collided |-> TRUE]
     ELSE [x |-> x, z |-> z, collided |-> FALSE]

\* resolveCollisions, step 1: the loop over the walls from index i on (each
\* result is bound once, as the loop assigns it once)
RECURSIVE pushOutOfWalls(_, _, _, _)
pushOutOfWalls(x, z, feetY, i) ==
  IF i > Len(walls) THEN [x |-> x, z |-> z]
  ELSE CHOOSE pushed \in
         {pushOutOfWalls(result.x, result.z, feetY, i + 1) :
            result \in {resolveWallCollision(x, z, feetY, playerHeight,
                                             playerRadius, walls[i])}} : TRUE

\* resolveCollisions, step 2: the loop over the cylinders from index i on
RECURSIVE pushOutOfCylinders(_, _, _, _)
pushOutOfCylinders(x, z, feetY, i) ==
  IF i > Len(cylinders) THEN [x |-> x, z |-> z]
  ELSE IF feetY < cylinders[i].height
  THEN CHOOSE pushed \in
         {pushOutOfCylinders(result.x, result.z, feetY, i + 1) :
            result \in {resolveCylinderCollision(x, z, playerRadius,
                                                 cylinders[i])}} : TRUE
  ELSE pushOutOfCylinders(x, z, feetY, i + 1)

\* resolveCollisions, steps 1 and 2: where the walls and then the pillars
\* leave the player
pushOut(position) ==
  CHOOSE c \in
    {pushOutOfCylinders(w.x, w.z, position.y - playerHeight \div 2, 1) :
       w \in {pushOutOfWalls(position.x, position.z,
                             position.y - playerHeight \div 2, 1)}} : TRUE

\* resolveCollisions, step 3: the surfaces on which the player may land
landingSurfaces(x, z, feetY) ==
  {platforms[i].max.y : i \in
     {j \in 1..Len(platforms) :
        /\ circleOverlapsAABBXZ(x, z, playerRadius, platforms[j])
        /\ \/ feetY < platforms[j].max.y /\ feetY > platforms[j].min.y
           \/ feetY >= platforms[j].max.y
                /\ feetY <= platforms[j].max.y + Cm(50)}}
  \cup
  {cylinders[i].height : i \in
     {j \in 1..Len(cylinders) :
        /\ (x - cylinders[j].center.x) * (x - cylinders[j].center.x)
             + (z - cylinders[j].center.z) * (z - cylinders[j].center.z)
             <= (cylinders[j].radius + playerRadius)
                  * (cylinders[j].radius + playerRadius)
        /\ feetY >= cylinders[j].height - Cm(50)
        /\ feetY <= cylinders[j].height + Cm(30)}}

\* resolveCollisions, steps 3 to 5, for the player pushed out to c and the
\* landing surfaces found there: landing, ceiling, ground
resolveVertical(c, surfaces, position, velocity) ==
  LET feetY == position.y - playerHeight \div 2
      highestLandingSurface == CHOOSE s \in surfaces : \A t \in surfaces : t <= s
      lands == velocity.y <= 0 /\ surfaces # {}
      y1 == IF lands THEN highestLandingSurface + playerHeight \div 2
            ELSE position.y
      hitsCeiling ==
        \E i \in 1..Len(platforms) :
          /\ circleOverlapsAABBXZ(c.x, c.z, playerRadius, platforms[i])
          /\ feetY + playerHeight > platforms[i].min.y
          /\ feetY < platforms[i].min.y
      vy1 == IF lands THEN 0
             ELSE IF velocity.y > 0 /\ hitsCeiling THEN 0 ELSE velocity.y
      onGround == ~lands /\ y1 - playerHeight \div 2 <= GROUND_LEVEL
  IN [position |-> [x |-> c.x,
                    y |-> IF onGround THEN GROUND_LEVEL + playerHeight \div 2
                          ELSE y1,
                    z |-> c.z],
      velocity |-> [x |-> velocity.x,
                    y |-> IF onGround THEN 0 ELSE vy1,
                    z |-> velocity.z],
      isGrounded |-> lands \/ onGround]

\* resolveCollisions that lands only a player whose feet are over a surface
resolveCollisions_above(position, velocity) ==
  CHOOSE resolved \in
    {resolveVertical(c, surfaces, position, velocity) :
       <<c, surfaces>> \in
         {<<pushed,
            {s \in landingSurfaces(pushed.x, pushed.z,
                                   position.y - playerHeight \div 2) :
               position.y - playerHeight \div 2 > s}>> :
            pushed \in {pushOut(position)}}} : TRUE

\* ArenaCollisionSystem.resolveCollisions
resolveCollisions(position, velocity) ==
  CHOOSE resolved \in
    {resolveVertical(c, surfaces, position, velocity) :
       <<c, surfaces>> \in
         {<<pushed, landingSurfaces(pushed.x, pushed.z,
                                    position.y - playerHeight \div 2)>> :
            pushed \in {pushOut(position)}}} : TRUE

\* PhysicsSystem.updatePlayer with dt = 1 / TICK_RATE, the step of tick();
\* GROUND_FRICTION is 0.9
updatePlayer(player) ==
  LET vy == IF ~player.isGrounded
            THEN player.velocity.y + GRAVITY \div TICK_RATE
            ELSE player.velocity.y
      x1 == player.position.x + player.velocity.x
      y1 == player.position.y + vy
      z1 == player.position.z + player.velocity.z
      onFloor == y1 - playerHeight \div 2 <= GROUND_LEVEL
      y2 == IF onFloor THEN GROUND_LEVEL + playerHeight \div 2 ELSE y1
      vy2 == IF onFloor THEN 0 ELSE vy
      halfArena == Cm(2900)
      under == y2 < 0
  IN [position |-> [x |-> Max(-halfArena, Min(halfArena, x1)),
                    y |-> IF under THEN playerHeight \div 2 ELSE y2,
                    z |-> Max(-halfArena, Min(halfArena, z1))],
      velocity |-> [x |-> IF onFloor THEN (player.velocity.x * 9) \div 10
                          ELSE player.velocity.x,
                    y |-> IF under THEN 0 ELSE vy2,
                    z |-> IF onFloor THEN (player.velocity.z * 9) \div 10
                          ELSE player.velocity.z],
      isGrounded |-> onFloor \/ under]

\* where the player is put: on open floor, against the north wall, beside
\* and over a cover obstacle, on the central platform, against and on a
\* pillar, on and under the corner platforms, on a side and on a floating
\* platform, under the tower
LandingPlaces ==
  { [x |-> Cm(1300), z |-> Cm(1300)], [x |-> Cm(1300), z |-> Cm(-2930)],
    [x |-> Cm(-1080), z |-> 0], [x |-> Cm(-1200), z |-> 0],
    [x |-> 0, z |-> Cm(400)], [x |-> 0, z |-> 0],
    [x |-> Cm(540), z |-> Cm(600)], [x |-> Cm(600), z |-> Cm(600)],
    [x |-> Cm(650), z |-> Cm(600)],
    [x |-> Cm(2000), z |-> Cm(2000)], [x |-> Cm(1640), z |-> Cm(2000)],
    [x |-> Cm(-2000), z |-> 0], [x |-> Cm(1000), z |-> Cm(1000)] }

\* the heights of the feet: under the floor, on it, and at, just under and
\* just over each surface
LandingFeet ==
  {Cm(c) : c \in {-10, 0, 20, 60, 130, 145, 150, 155, 175, 200, 225, 240,
                  275, 300, 375, 425, 450, 525, 550, 590, 600, 625, 630,
                  650, 700}}

LandingInit ==
  /\ laSystem \in {"arena", "physics"}
  /\ laCount = 0
  /\ \E place \in LandingPlaces, feetY \in LandingFeet,
        vy \in {-10 * STEP_UNITS, 0, 10 * STEP_UNITS} :
       /\ laPosition = [x |-> place.x, y |-> feetY + playerHeight \div 2,
                        z |-> place.z]
       /\ laVelocity = [x |-> 0, y |-> vy, z |-> 0]
  /\ laGrounded = (/\ laSystem = "physics"
                   /\ laPosition.y = GROUND_LEVEL + playerHeight \div 2
                   /\ laVelocity.y = 0)

\* no player
LandingIdle ==
  /\ laSystem = "arena"
  /\ laPosition = [x |-> 0, y |-> 0, z |-> 0]
  /\ laVelocity = [x |-> 0, y |-> 0, z |-> 0]
  /\ laGrounded = FALSE
  /\ laCount = 0

\* the collisions of the player are resolved once more
ArenaResolve ==
  /\ laSystem = "arena"
  /\ laCount < MaxResolves
  /\ LET result == resolveCollisions(laPosition, laVelocity)
     IN /\ laPosition' = result.position
        /\ laVelocity' = result.velocity
        /\ laGrounded' = result.isGrounded
  /\ laCount' = laCount + 1
  /\ UNCHANGED <<laSystem, notLanding>>

\* PhysicsSystem.update moves the player by one tick
PhysicsUpdate ==
  /\ laSystem = "physics"
  /\ laCount < MaxResolves
  /\ LET result == updatePlayer([position |-> laPosition,
                                 velocity |-> laVelocity,
                                 isGrounded |-> laGrounded])
     IN /\ laPosition' = result.position
        /\ laVelocity' = result.velocity
        /\ laGrounded' = result.isGrounded
  /\ laCount' = laCount + 1
  /\ UNCHANGED <<laSystem, notLanding>>


\* ------------------------------------------------------------------------
\* GameRoom: the game loop, started and stopped
\* ------------------------------------------------------------------------
\* the handle setInterval gives the tick interval
TICK_INTERVAL == 1

\* the room as constructed: the loop is not running
LoopInit ==
  /\ running = FALSE
  /\ intervalId = NO_TIMER

\* the room after start()
LoopStarted ==
  /\ running = TRUE
  /\ intervalId = TICK_INTERVAL

\* what start() and stop() leave alone
notRoomNorLoop ==
  <<managerVars, healthVars, winVars, inputVars, abilityVars, newPlayerVars,
    projectileVars, regenVars, geometryVars, attemptVars, transportVars,
    landingVars>>

\* GameRoom.start: nothing happens when the loop is running
RoomStart ==
  /\ ~running
  /\ running' = TRUE
  /\ intervalId' = TICK_INTERVAL
  /\ UNCHANGED <<roomVars, notRoomNorLoop>>

\* GameRoom.stop: the tick interval and the countdown interval are cleared,
\* the phase stays what it is
RoomStop ==
  /\ running' = FALSE
  /\ intervalId' = NO_TIMER
  /\ \E r \in {stopCountdown(Room)} :
       /\ timers' = r.timers
       /\ countdownIntervalId' = r.countdownIntervalId
  /\ op' = [name |-> "stop"]
  /\ UNCHANGED <<phase, connectedPlayers, players, projectiles, pendingInputs,
                 currentTick, countdownSeconds, sent, notRoomNorLoop>>

\* the tick interval fires
LoopTick ==
  /\ intervalId # NO_TIMER
  /\ Tick

\* ------------------------------------------------------------------------
\* Specifications
\* ------------------------------------------------------------------------
\* the running room
Init ==
  /\ RoomInit /\ ManagerInit /\ HealthInit /\ WinIdle /\ InputInit
  /\ AbilityIdle /\ NewPlayerIdle /\ ProjectileIdle /\ RegenIdle
  /\ GeometryIdle
  /\ AttemptIdle
  /\ TransportIdle
  /\ LandingIdle
  /\ LoopStarted

Next ==
  \/ AddPlayer
  \/ RemovePlayer
  \/ CountdownFire
  \/ HandleInput
  \/ Tick

Spec == Init /\ [][Next]_vars

\* a phase manager under any caller
ManagerNext ==
  \/ CheckAutoStart
  \/ OnPlayerCountChanged
  \/ HandleGameOver
  \/ StartPlaying
  \/ FullReset
  \/ Stop
  \/ TimerFire

SpecManager == Init /\ [][ManagerNext]_vars

\* the health of the players under joins, leaves, hits, regeneration steps
\* and restarts
HealthNext ==
  \/ HealthJoin
  \/ HealthLeave
  \/ HealthHit
  \/ HealthRegen
  \/ HealthRestart

SpecHealth == Init /\ [][HealthNext]_vars

\* checkWinCondition on every player map within the bounds
WinNext == CheckWinCondition

InitWin ==
  /\ RoomInit /\ ManagerInit /\ HealthInit /\ WinInit /\ InputInit
  /\ AbilityIdle /\ NewPlayerIdle /\ ProjectileIdle /\ RegenIdle
  /\ GeometryIdle
  /\ AttemptIdle
  /\ TransportIdle
  /\ LandingIdle
  /\ LoopStarted

SpecWin == InitWin /\ [][WinNext]_vars

\* the input queues under arrivals, ticks, joins, leaves, deaths, game overs
\* and match starts
InputNext ==
  \/ InputJoin
  \/ InputLeave
  \/ InputArrive
  \/ InputTick
  \/ InputStartNewGame
  \/ InputDeath
  \/ InputGameOver

SpecInputs == Init /\ [][InputNext]_vars

\* a match over the length of a cooldown
AbilityNext ==
  \/ AbilityTick
  \/ AbilityIdleTick
  \/ AbilityLeave

InitAbility ==
  /\ RoomInit /\ ManagerInit /\ HealthInit /\ WinIdle /\ InputInit
  /\ AbilityInit /\ NewPlayerIdle /\ ProjectileIdle /\ RegenIdle
  /\ GeometryIdle
  /\ AttemptIdle
  /\ TransportIdle
  /\ LandingIdle
  /\ LoopStarted

SpecAbility == InitAbility /\ [][AbilityNext]_vars

\* the abilities of a player under CooldownSystem, over the length of a
\* cooldown
CooldownNext == CooldownTick

SpecCooldown == InitAbility /\ [][CooldownNext]_vars

\* the flight of a projectile through a match of two and past its end
ProjectileNext ==
  \/ ProjectileTick
  \/ ProjectileIdleTick
  \/ ProjectileLeave

InitProjectile ==
  /\ RoomInit /\ ManagerInit /\ HealthInit /\ WinIdle /\ InputInit
  /\ AbilityIdle /\ NewPlayerIdle /\ ProjectileInit /\ RegenIdle
  /\ GeometryIdle
  /\ AttemptIdle
  /\ TransportIdle
  /\ LandingIdle
  /\ LoopStarted

SpecProjectile == InitProjectile /\ [][ProjectileNext]_vars

\* a blast among players placed around the caster
NovaNext == NovaFire

InitNova ==
  /\ RoomInit /\ ManagerInit /\ HealthInit /\ WinIdle /\ InputInit
  /\ AbilityIdle /\ NewPlayerIdle /\ ProjectileIdle /\ RegenIdle
  /\ NovaInit
  /\ AttemptIdle
  /\ TransportIdle
  /\ LandingIdle
  /\ LoopStarted

SpecNova == InitNova /\ [][NovaNext]_vars

\* a ray among players placed around the caster
RayNext == RayFire

InitRay ==
  /\ RoomInit /\ ManagerInit /\ HealthInit /\ WinIdle /\ InputInit
  /\ AbilityIdle /\ NewPlayerIdle /\ ProjectileIdle /\ RegenIdle
  /\ RayInit
  /\ AttemptIdle
  /\ TransportIdle
  /\ LandingIdle
  /\ LoopStarted

SpecRay == InitRay /\ [][RayNext]_vars

\* the first ticks of a match of three
CollisionNext == CollisionTick

InitCollision ==
  /\ RoomInit /\ ManagerInit /\ HealthInit /\ WinIdle /\ InputInit
  /\ AbilityIdle /\ NewPlayerIdle /\ CollisionInit /\ RegenIdle
  /\ GeometryIdle
  /\ AttemptIdle
  /\ TransportIdle
  /\ LandingIdle
  /\ LoopStarted

SpecCollision == InitCollision /\ [][CollisionNext]_vars

\* a regeneration step on every player map within the bounds
RegenNext == RegenUpdate

InitRegen ==
  /\ RoomInit /\ ManagerInit /\ HealthInit /\ WinIdle /\ InputInit
  /\ AbilityIdle /\ NewPlayerIdle
  /\ ProjectileIdle /\ RegenInit
  /\ GeometryIdle
  /\ AttemptIdle
  /\ TransportIdle
  /\ LandingIdle
  /\ LoopStarted

SpecRegen == InitRegen /\ [][RegenNext]_vars

\* the first trigger of a newly created player, at every tick within the bound
NewPlayerNext == NewPlayerTrigger

InitNewPlayer ==
  /\ RoomInit /\ ManagerInit /\ HealthInit /\ WinIdle /\ InputInit
  /\ AbilityIdle /\ NewPlayerInit /\ ProjectileIdle /\ RegenIdle
  /\ GeometryIdle
  /\ AttemptIdle
  /\ TransportIdle
  /\ LandingIdle
  /\ LoopStarted

SpecNewPlayer == InitNewPlayer /\ [][NewPlayerNext]_vars

\* one action attempted through a match
AttemptNext ==
  \/ AttemptUse
  \/ AttemptTick

InitAttempt ==
  /\ RoomInit /\ ManagerInit /\ HealthInit /\ WinIdle /\ InputInit
  /\ AbilityIdle /\ NewPlayerIdle /\ ProjectileIdle /\ RegenIdle
  /\ GeometryIdle /\ AttemptInit
  /\ TransportIdle
  /\ LandingIdle
  /\ LoopStarted

SpecAttempt == InitAttempt /\ [][AttemptNext]_vars

\* the connection manager and its sockets
TransportNext ==
  \/ JoinGame
  \/ SocketBreaks
  \/ SocketFails
  \/ SocketEvent
  \/ TransportTick

InitTransport ==
  /\ RoomInit /\ ManagerInit /\ HealthInit /\ WinIdle /\ InputInit
  /\ AbilityIdle /\ NewPlayerIdle /\ ProjectileIdle /\ RegenIdle
  /\ GeometryIdle /\ AttemptIdle /\ TransportInit
  /\ LandingIdle
  /\ LoopStarted

SpecTransport == InitTransport /\ [][TransportNext]_vars

\* a player resolved against the arena, or moved by the physics, MaxResolves
\* times
LandingNext ==
  \/ ArenaResolve
  \/ PhysicsUpdate

InitLanding ==
  /\ RoomInit /\ ManagerInit /\ HealthInit /\ WinIdle /\ InputInit
  /\ AbilityIdle /\ NewPlayerIdle /\ ProjectileIdle /\ RegenIdle
  /\ GeometryIdle /\ AttemptIdle /\ TransportIdle /\ LandingInit
  /\ LoopStarted

SpecLanding == InitLanding /\ [][LandingNext]_vars

\* a match in which every player attacks
ShowdownNext ==
  \/ ShowdownTick
  \/ ShowdownIdleTick
  \/ ShowdownLeave

InitShowdown ==
  /\ RoomInit /\ ManagerInit /\ HealthInit /\ WinIdle /\ InputInit
  /\ AbilityIdle /\ NewPlayerIdle /\ ShowdownInit /\ RegenIdle
  /\ GeometryIdle
  /\ AttemptIdle
  /\ TransportIdle
  /\ LandingIdle
  /\ LoopStarted

SpecShowdown == InitShowdown /\ [][ShowdownNext]_vars

\* the room from its construction under joins, leaves and ticks without
\* inputs, with its loop started and stopped; a scheduled countdown interval
\* keeps firing
LifecycleNext ==
  \/ RoomStart
  \/ RoomStop
  \/ AddPlayer
  \/ RemovePlayer
  \/ CountdownFire
  \/ LoopTick

InitLifecycle ==
  /\ RoomInit /\ ManagerInit /\ HealthInit /\ WinIdle /\ InputInit
  /\ AbilityIdle /\ NewPlayerIdle /\ ProjectileIdle /\ RegenIdle
  /\ GeometryIdle
  /\ AttemptIdle
  /\ TransportIdle
  /\ LandingIdle
  /\ LoopInit

SpecLifecycle == InitLifecycle /\ [][LifecycleNext]_vars /\ WF_vars(CountdownFire)

\* ------------------------------------------------------------------------
\* Properties
\* ------------------------------------------------------------------------
Types(msgs) == [i \in 1..Len(msgs) |-> msgs[i].type]

IsPhaseUpdateTo(msg, ph) == msg.type = "GAME_PHASE_UPDATE" /\ msg.phase = ph

\* C1: under any sequence of joins, leaves, hits (of the projectile,
\* area-blast and ray-blast damages), regeneration steps and match restarts,
\* every player of the map has 0 <= health <= maxHealth and is alive exactly
\* when health > 0.
HealthInvariant ==
  \A i \in 1..Len(healthPlayers) :
    /\ 0 <= healthPlayers[i].health
    /\ healthPlayers[i].health <= healthPlayers[i].maxHealth
    /\ healthPlayers[i].isAlive <=> healthPlayers[i].health > 0

\* a hit worth more than the victim's remaining health has just killed it
HealthInvariant_witness ==
  /\ healthOp.name = "hit"
  /\ healthOp.overkill
  /\ MapHas(healthPlayers, healthOp.victimId)
  /\ ~MapGet(healthPlayers, healthOp.victimId).isAlive

\* C2: a checkAutoStart(n) step taken in waiting_for_players with
\* n >= MIN_PLAYERS_TO_START moves the phase to countdown, sets the remaining
\* seconds to COUNTDOWN_SECONDS and schedules one timer, which becomes the
\* current one; with n below the minimum, or in countdown or playing, the step
\* changes neither the phase, nor the seconds, nor the timers.
CheckAutoStartContract ==
  [][managerOp'.name = "checkAutoStart" =>
       IF /\ manager.phase = "waiting_for_players"
          /\ managerOp'.playerCount >= MIN_PLAYERS_TO_START
       THEN /\ manager'.phase = "countdown"
            /\ manager'.countdownSeconds = COUNTDOWN_SECONDS
            /\ \E t \in managerTimers' \ managerTimers :
                 /\ managerTimers' = managerTimers \cup {t}
                 /\ manager'.countdownIntervalId = t.id
       ELSE /\ manager' = manager
            /\ managerTimers' = managerTimers]_vars

\* checkAutoStart at the minimum has just taken a waiting manager to countdown
CheckAutoStartContract_witness ==
  /\ managerOp.name = "checkAutoStart"
  /\ managerOp.from = "waiting_for_players"
  /\ managerOp.playerCount = MIN_PLAYERS_TO_START
  /\ manager.phase = "countdown"
  /\ manager.countdownSeconds = COUNTDOWN_SECONDS

\* C3: an onPlayerCountChanged(n) step taken in countdown with n below the
\* minimum returns the phase to waiting_for_players and leaves no current
\* timer, and any other onPlayerCountChanged step changes nothing; and while
\* the phase is waiting_for_players (no countdown has been started since) no
\* timer firing broadcasts a countdown update, moves the phase to playing or
\* invokes onGameStart.
CountdownCancelledOnDrop ==
  [][/\ managerOp'.name = "onPlayerCountChanged" =>
          IF /\ manager.phase = "countdown"
             /\ managerOp'.playerCount < MIN_PLAYERS_TO_START
          THEN /\ manager'.phase = "waiting_for_players"
               /\ manager'.countdownIntervalId = NO_TIMER
          ELSE /\ manager' = manager
               /\ managerTimers' = managerTimers
     /\ (manager.phase = "waiting_for_players" /\ managerOp'.name = "timerFire") =>
          /\ \A i \in 1..Len(managerSent') :
               managerSent'[i].type # "COUNTDOWN_UPDATE"
          /\ manager'.phase # "playing"
          /\ gameStarts' = gameStarts]_vars

\* a drop below the minimum has just taken a counting manager back to waiting
CountdownCancelledOnDrop_witness ==
  /\ managerOp.name = "onPlayerCountChanged"
  /\ managerOp.from = "countdown"
  /\ manager.phase = "waiting_for_players"

\* C4: a timer firing invokes onGameStart exactly when it is the
\* COUNTDOWN_SECONDS-th firing of a countdown in progress; that firing moves
\* the phase to playing and is the only invocation for that countdown, and no
\* other firing invokes onGameStart.
CountdownReachesZeroOnce ==
  [][managerOp'.name = "timerFire" =>
       IF manager.phase = "countdown" /\ firings' = COUNTDOWN_SECONDS
       THEN /\ manager'.phase = "playing"
            /\ gameStarts = 0
            /\ gameStarts' = 1
       ELSE /\ gameStarts' = gameStarts
            /\ manager'.phase = manager.phase]_vars

\* the fifth firing has just taken a counting manager to playing
CountdownReachesZeroOnce_witness ==
  /\ managerOp.name = "timerFire"
  /\ managerOp.from = "countdown"
  /\ firings = COUNTDOWN_SECONDS
  /\ manager.phase = "playing"
  /\ gameStarts = 1

\* C5: when a handler of the room declares game over, its GAME_OVER message
\* names a player of the live set, no phase update to countdown and no
\* countdown update precedes it among the handler's broadcasts, the phase
\* update to countdown and then the countdown update carrying
\* COUNTDOWN_SECONDS follow it, and the handler ends in phase countdown with
\* COUNTDOWN_SECONDS remaining.
GameOverPrecedesCountdown ==
  \A i \in 1..Len(sent) :
    sent[i].type = "GAME_OVER" =>
      /\ sent[i].winnerId \in Keys(players)
      /\ \A j \in 1..(i - 1) :
           /\ ~IsPhaseUpdateTo(sent[j], "countdown")
           /\ sent[j].type # "COUNTDOWN_UPDATE"
      /\ \E j \in (i + 1)..Len(sent) :
           /\ IsPhaseUpdateTo(sent[j], "countdown")
           /\ \E k \in (j + 1)..Len(sent) :
                /\ sent[k].type = "COUNTDOWN_UPDATE"
                /\ sent[k].secondsRemaining = COUNTDOWN_SECONDS
                /\ \A l \in 1..(k - 1) : sent[l].type # "COUNTDOWN_UPDATE"
      /\ phase = "countdown"
      /\ countdownSeconds = COUNTDOWN_SECONDS

\* a tick in which a kill left one player alive has declared game over
GameOverPrecedesCountdown_witness ==
  /\ op.name = "tick"
  /\ "GAME_OVER" \in Range(Types(sent))
  /\ "PLAYER_DIED" \in Range(Types(sent))

\* C6: whenever the room has no connected player it is in
\* waiting_for_players with no countdown timer scheduled and empty player and
\* projectile sets, the removal that emptied it leaves the tick counter at 0,
\* and no handler that runs in the empty room broadcasts a countdown update,
\* a phase update or a game over.
EmptyRoomIsReset ==
  connectedPlayers = <<>> =>
    /\ phase = "waiting_for_players"
    /\ countdownIntervalId = NO_TIMER
    /\ timers = {}
    /\ players = <<>>
    /\ projectiles = <<>>
    /\ op.name = "removePlayer" => currentTick = 0
    /\ \A i \in 1..Len(sent) : sent[i].type = "GAME_STATE"

\* the last player has just left a room that was counting down
EmptyRoomIsReset_witness ==
  /\ op.name = "removePlayer"
  /\ op.from = "countdown"
  /\ connectedPlayers = <<>>
  /\ countdownSeconds > 0

\* C7: a join that raises the connected-player count to the minimum in
\* waiting_for_players takes the room to countdown, and the room enters
\* playing only by a countdown firing that reaches zero, never directly from
\* waiting_for_players.
PhaseFollowsListedTransitions ==
  [][/\ phase = "waiting_for_players" => phase' # "playing"
     /\ (/\ op'.name = "addPlayer"
         /\ phase = "waiting_for_players"
         /\ Len(connectedPlayers) < MIN_PLAYERS_TO_START
         /\ Len(connectedPlayers') >= MIN_PLAYERS_TO_START) =>
          phase' = "countdown"
     /\ (phase # "playing" /\ phase' = "playing") =>
          /\ op'.name = "countdownFire"
          /\ phase = "countdown"
          /\ countdownSeconds' <= 0]_vars

\* C8: a countdown firing that reaches zero with at least the minimum number
\* of players connected leaves the room playing at tick 0 with no projectile,
\* a live set holding exactly the connected players, each alive at full
\* health with every ability ready, and an empty input queue per player.
MatchStartResetsState ==
  [][(/\ op'.name = "countdownFire"
      /\ countdownSeconds' <= 0
      /\ Len(connectedPlayers) >= MIN_PLAYERS_TO_START) =>
       /\ phase' = "playing"
       /\ currentTick' = 0
       /\ projectiles' = <<>>
       /\ connectedPlayers' = connectedPlayers
       /\ Len(players') = Len(connectedPlayers)
       /\ Keys(players') = Range(connectedPlayers)
       /\ \A i \in 1..Len(players') :
            /\ players'[i].isAlive
            /\ players'[i].health = players'[i].maxHealth
            /\ \A a \in Abilities :
                 /\ players'[i].abilities[a].ready
                 /\ players'[i].abilities[a].lastUsed = NEVER_USED
       /\ Keys(pendingInputs') = Range(connectedPlayers)
       /\ \A i \in 1..Len(pendingInputs') : pendingInputs'[i].inputs = <<>>]_vars

\* a countdown firing has just started a match
MatchStartResetsState_witness ==
  /\ op.name = "countdownFire"
  /\ phase = "playing"
  /\ Len(connectedPlayers) >= MIN_PLAYERS_TO_START
  /\ currentTick = 0

\* C9: a removal during playing that leaves the room non-empty declares game
\* over naming the one remaining alive player, and ends in countdown, when
\* exactly one of the remaining players is alive; otherwise it declares no
\* game over and the phase stays playing.
DisconnectRechecksWin ==
  [][(/\ op'.name = "removePlayer"
      /\ phase = "playing"
      /\ connectedPlayers' # <<>>) =>
       LET remaining == {p \in Range(players) : p.id # op'.id /\ p.isAlive}
       IN IF Cardinality(remaining) = 1
          THEN /\ phase' = "countdown"
               /\ \E i \in 1..Len(sent') :
                    /\ sent'[i].type = "GAME_OVER"
                    /\ \A p \in remaining : sent'[i].winnerId = p.id
          ELSE /\ phase' = "playing"
               /\ "GAME_OVER" \notin Range(Types(sent'))]_vars

\* a disconnect during a match has just ended it
DisconnectRechecksWin_witness ==
  /\ op.name = "removePlayer"
  /\ op.from = "playing"
  /\ phase = "countdown"
  /\ "GAME_OVER" \in Range(Types(sent))

\* C10: checkWinCondition returns the id of the alive player when exactly one
\* player of the map is alive, and none when no player or at least two are
\* alive or the map is empty.
WinConditionExact ==
  winResult # "pending" =>
    LET alive == {i \in 1..Len(winPlayers) : winPlayers[i].isAlive}
    IN IF Cardinality(alive) = 1
       THEN \A i \in alive : winResult = winPlayers[i].id
       ELSE winResult = NULL

\* it has named the one alive player of a map of three, who is not the first
WinConditionExact_witness ==
  /\ Len(winPlayers) = 3
  /\ ~winPlayers[1].isAlive
  /\ winResult \notin {"pending", NULL}

\* C11: each input handed to handleInput is handed to applyInput at most
\* once and only for the player it arrived for, and the inputs of one player
\* are applied in the order of their arrival (a client numbers its inputs in
\* the order it sends them), under any interleaving of arrivals, ticks, joins, leaves, deaths
\* and match starts; lastProcessedInput is the last input applied.
InputsAppliedOnceInOrder ==
  \A id \in InputIds :
    /\ \A i, j \in 1..Len(iqApplied[id]) :
         i < j => iqApplied[id][i] < iqApplied[id][j]
    /\ Range(iqApplied[id]) \subseteq 1..iqReceived[id]
    /\ (MapHas(iqPlayers, id) /\ MapGet(iqPlayers, id).lastProcessedInput # 0) =>
         /\ iqApplied[id] # <<>>
         /\ MapGet(iqPlayers, id).lastProcessedInput =
              iqApplied[id][Len(iqApplied[id])]

\* a tick has just applied two queued inputs of one player, after an earlier
\* tick applied another
InputsAppliedOnceInOrder_witness ==
  /\ iqOp.name = "tick"
  /\ iqOp.batch
  /\ \E id \in InputIds : Len(iqApplied[id]) = 3

\* C12: every tick of the room, in every phase, leaves every player's
\* pending-input queue empty.
TickDrainsEveryQueue ==
  [][op'.name = "tick" =>
       \A i \in 1..Len(pendingInputs') : pendingInputs'[i].inputs = <<>>]_vars

\* a tick outside a match has just left an input in a queue
TickDrainsEveryQueue_witness ==
  /\ op.name = "tick"
  /\ phase # "playing"
  /\ \E i \in 1..Len(pendingInputs) : pendingInputs[i].inputs # <<>>

\* C13: every tick of the room, in any phase, increases the tick counter by
\* exactly 1 and broadcasts exactly one world-state snapshot, which carries
\* the new tick; a tick that begins in a phase other than playing changes no
\* player (cooldown records included) and no projectile.
TickCountsAndBroadcastsOnce ==
  [][op'.name = "tick" =>
       /\ currentTick' = currentTick + 1
       /\ Cardinality({i \in 1..Len(sent') : sent'[i].type = "GAME_STATE"}) = 1
       /\ \A i \in 1..Len(sent') :
            sent'[i].type = "GAME_STATE" => sent'[i].tick = currentTick'
       /\ phase # "playing" =>
            /\ players' = players
            /\ projectiles' = projectiles
            /\ phase' = phase
            /\ Len(sent') = 1]_vars

\* a tick has just run in a waiting room that holds a player
TickCountsAndBroadcastsOnce_witness ==
  /\ op.name = "tick"
  /\ phase = "waiting_for_players"
  /\ players # <<>>
  /\ currentTick = 1
  /\ Types(sent) = <<"GAME_STATE">>

\* C14: in a tick whose input raises an ability, the trigger takes effect
\* exactly when it records the use; a recorded use is stamped with the
\* current tick, also when the blast or the ray meets nobody, and lies at
\* least the cooldown of the ability, in ticks, after the use recorded before;
\* no other step changes the tick of the last use.
UseRecordedAndSpaced ==
  [][LET before == MapGet(abPlayers, CASTER).abilities[abAbility].lastUsed
         after == MapGet(abPlayers', CASTER).abilities[abAbility].lastUsed
         raised == abOp'.name = "tick" /\ abAbility \in abOp'.input
     IN /\ after # before =>
             /\ raised
             /\ after = abTick'
             /\ after - before >= cooldownMsToTicks(ABILITY_COOLDOWNS[abAbility])
        /\ (raised /\ abAbility \in {"primaryFire", "novaBlast", "arcaneRay"}) =>
             (abOp'.fired <=> after # before)]_vars

\* a blast or a ray that met nobody has just been fired a second time, the
\* first use a full cooldown before
UseRecordedAndSpaced_witness ==
  /\ abOp.name = "tick"
  /\ abAbility \in abOp.input
  /\ abAbility \in {"novaBlast", "arcaneRay"}
  /\ abOp.fired
  /\ abOp.alone
  /\ abTick > cooldownMsToTicks(ABILITY_COOLDOWNS[abAbility])
  /\ MapGet(abPlayers, CASTER).abilities[abAbility].lastUsed = abTick

\* C15: in the snapshot every tick broadcasts, in every phase, each of the
\* five ability records of every player has ready exactly when the tick of
\* the snapshot is at least the cooldown of the ability, in ticks, past
\* lastUsed.
SnapshotReadyMatchesCooldown ==
  abOp.name = "tick" =>
    \A i \in 1..Len(abPlayers), a \in Abilities :
      abPlayers[i].abilities[a].ready <=>
        abTick - abPlayers[i].abilities[a].lastUsed
          >= cooldownMsToTicks(ABILITY_COOLDOWNS[a])

\* a tick of a match has just broadcast a blast or ray record that is not
\* ready a full cooldown after its use
SnapshotReadyMatchesCooldown_witness ==
  /\ abOp.name = "tick"
  /\ abOp.from = "playing"
  /\ abAbility \in {"novaBlast", "arcaneRay"}
  /\ LET ability == MapGet(abPlayers, CASTER).abilities[abAbility]
     IN /\ ~ability.ready
        /\ abTick - ability.lastUsed >= cooldownMsToTicks(ABILITY_COOLDOWNS[abAbility])

ProjectileHitsAtMostOnce ==
  [][pjOp'.name = "tick" =>
       LET hits == pjOp'.hits
           checked == pjOp'.checked
       IN /\ \A i, j \in 1..Len(hits) :
                hits[i].projectileId = hits[j].projectileId => i = j
          /\ \A i \in 1..Len(hits) :
                /\ hits[i].playerId # hits[i].ownerId
                /\ \E k \in 1..Len(checked) :
                      checked[k].id = hits[i].playerId /\ checked[k].isAlive
                /\ hits[i].projectileId \notin Keys(pjProjectiles')
                /\ hits[i].projectileId \notin Keys(pjOp'.snapshot)
          /\ \A k \in 1..Len(checked) :
                LET n == Cardinality({i \in 1..Len(hits) :
                                        hits[i].playerId = checked[k].id})
                    after == MapGet(pjPlayers', checked[k].id).health
                IN /\ checked[k].health - after <= PRIMARY_FIRE_DAMAGE * n
                   /\ after <= checked[k].health]_vars

\* a tick in which two projectiles met p3, who had the health of one hit
\* left; both projectiles are gone
ProjectileHitsAtMostOnce_witness ==
  /\ pjOp.name = "tick"
  /\ Len(pjOp.hits) = 2
  /\ \A i \in 1..2 : pjOp.hits[i].playerId = THIRD
  /\ \E k \in 1..Len(pjOp.checked) :
        /\ pjOp.checked[k].id = THIRD
        /\ pjOp.checked[k].isAlive
        /\ pjOp.checked[k].health <= PRIMARY_FIRE_DAMAGE
  /\ ~MapGet(pjPlayers, THIRD).isAlive
  /\ pjProjectiles = <<>>

\* a projectile of the tick that is within its lifetime and met neither the
\* arena nor a player is in the snapshot of the tick
InFlightIsInSnapshot ==
  \A i \in 1..Len(pjOp'.fired) :
    LET p == pjOp'.fired[i]
    IN (/\ pjTick' - p.createdAt < p.lifetime
        /\ p.id \notin pjOp'.arena
        /\ \A j \in 1..Len(pjOp'.hits) : pjOp'.hits[j].projectileId # p.id)
       => p \in Range(pjOp'.snapshot)

\* no projectile of the snapshot has reached its lifetime
ExpiredIsNotInSnapshot ==
  \A p \in Range(pjOp'.snapshot) : pjTick' - p.createdAt < p.lifetime

\* a projectile of the snapshot was in flight before the tick or was created
\* in it: one that left the projectile set does not come back
SnapshotFromFlight ==
  \A p \in Range(pjOp'.snapshot) :
    p \in Range(pjProjectiles) \/ p.createdAt = pjTick'

\* C19 as stated: a projectile created at tick T with lifetime L that neither
\* collides nor leaves the bounds is in the snapshot of every tick from T to
\* T+L-1, and no snapshot of tick T+L or later holds it, whatever the phase.
ProjectileLifetimeExact ==
  [][pjOp'.name = "tick" =>
       InFlightIsInSnapshot /\ ExpiredIsNotInSnapshot /\ SnapshotFromFlight]_vars

\* C19, amended: a projectile created at tick T with lifetime L that neither
\* collides nor leaves the bounds is in the snapshot of every tick from T to
\* T+L-1; a tick of the playing phase leaves no projectile of age L or more
\* in its snapshot, and a projectile that left the snapshot never returns;
\* a tick outside the playing phase removes no projectile, so that one in
\* flight when the match ends stays in the snapshots past tick T+L.
ProjectileLifetimeWhilePlaying ==
  [][pjOp'.name = "tick" =>
       /\ InFlightIsInSnapshot
       /\ SnapshotFromFlight
       /\ pjOp'.from = "playing" => ExpiredIsNotInSnapshot
       /\ pjOp'.from # "playing" => pjOp'.snapshot = pjProjectiles]_vars

\* the tick T+L of a match still played: the projectile that met nothing was
\* in the snapshot of tick T+L-1 and is not in this one
ProjectileLifetimeWhilePlaying_witness ==
  /\ pjOp.name = "tick"
  /\ pjOp.from = "playing"
  /\ \E i \in 1..Len(pjOp.fired) :
        /\ pjTick - pjOp.fired[i].createdAt = pjOp.fired[i].lifetime
        /\ pjOp.fired[i].id \notin pjOp.arena
  /\ pjOp.snapshot = <<>>

\* C20: a regeneration step leaves unchanged every player who is dead, at
\* full health, or last damaged fewer than 8 seconds of ticks before the
\* current tick; every other player gains exactly 5 health per second of the
\* step, capped at the maximum health, and nothing else of them changes.
RegenStepExact ==
  rgResult # <<>> =>
    \A i \in 1..Len(rgPlayers) :
      LET before == rgPlayers[i]
          after == rgResult[1][i]
          exempt ==
            \/ ~before.isAlive
            \/ before.health = before.maxHealth
            \/ /\ "lastDamageTick" \in DOMAIN before
               /\ rgTick - before.lastDamageTick
                    < (HEALTH_REGEN_DELAY_MS \div 1000) * TICK_RATE
      IN IF exempt THEN after = before
         ELSE /\ after = [before EXCEPT !.health = after.health]
              /\ after.health =
                   Min(before.health + HEALTH_REGEN_RATE_PER_SECOND * rgDelta,
                       before.maxHealth)

\* a step in which p1, last damaged exactly delayTicks ago, gained the whole
\* amount, and p2, last damaged one tick later, gained nothing
RegenStepExact_witness ==
  /\ rgResult # <<>>
  /\ "lastDamageTick" \in DOMAIN rgPlayers[1]
  /\ rgTick - rgPlayers[1].lastDamageTick = delayTicks
  /\ rgResult[1][1].health =
       rgPlayers[1].health + HEALTH_REGEN_RATE_PER_SECOND * rgDelta
  /\ rgResult[1][1].health < MAX_HEALTH
  /\ "lastDamageTick" \in DOMAIN rgPlayers[2]
  /\ rgTick - rgPlayers[2].lastDamageTick = delayTicks - 1
  /\ rgPlayers[2].health < MAX_HEALTH
  /\ rgPlayers[2].isAlive
  /\ rgResult[1][2] = rgPlayers[2]

\* C21: every hit that reduces a player's health in a tick of the room stamps
\* that player's lastDamageTick with the tick.
HitStampsLastDamageTick ==
  [][op'.name = "tick" =>
       \A i \in 1..Len(players') :
         LET after == players'[i]
         IN (/\ MapHas(players, after.id)
             /\ after.health < MapGet(players, after.id).health)
            => /\ "lastDamageTick" \in DOMAIN after
               /\ after.lastDamageTick = currentTick']_vars

\* a tick has just damaged a player, who carries no lastDamageTick
HitStampsLastDamageTick_witness ==
  /\ op.name = "tick"
  /\ \E i \in 1..Len(players) :
        /\ players[i].isAlive
        /\ players[i].health < SPAWN_HEALTH
        /\ "lastDamageTick" \notin DOMAIN players[i]

\* C22: a ready blast returns exactly the players other than the caster that
\* are alive and whose 3D distance to the caster is at most the radius (a
\* target at the radius is in, one any farther is out, the caster and the
\* dead never are); a blast on cooldown returns null.
NovaBlastHitsWithinRadius ==
  geResult # <<>> =>
    LET caster == MapGet(gePlayers, CASTER)
        ready == geTick - caster.abilities["novaBlast"].lastUsed
                   >= (NOVA_BLAST_COOLDOWN_MS \div 1000) * TICK_RATE
        within == {p.id : p \in {q \in Range(gePlayers) :
                     /\ q.id # CASTER
                     /\ q.isAlive
                     /\ DistSq(q.position, caster.position)
                          <= NOVA_BLAST_RADIUS * NOVA_BLAST_RADIUS}}
        result == geResult[1].result
    IN IF ready
       THEN /\ result # <<>>
            /\ Range(result[1].hitPlayerIds) = within
            /\ Len(result[1].hitPlayerIds) = Cardinality(within)
       ELSE result = <<>>

\* a blast that hit p2 on the sphere of the radius, off every axis, and
\* missed p3 one unit beyond it
NovaBlastHitsWithinRadius_witness ==
  /\ geResult # <<>>
  /\ geResult[1].result # <<>>
  /\ geResult[1].result[1].hitPlayerIds = <<TARGET>>
  /\ DistSq(MapGet(gePlayers, TARGET).position,
            MapGet(gePlayers, CASTER).position)
       = NOVA_BLAST_RADIUS * NOVA_BLAST_RADIUS
  /\ MapGet(gePlayers, TARGET).position.x = 3 * UNITS_PER_METRE
  /\ MapGet(gePlayers, THIRD).isAlive
  /\ MapGet(gePlayers, THIRD).position.x = NOVA_BLAST_RADIUS + 1

\* how far along the look direction of the caster a player stands (negative
\* behind the caster), and how far beside the ray, squared
AlongRay(caster, q) ==
  (q.position.x - caster.position.x) * (-QuarterSin(caster.yaw))
    + (q.position.z - caster.position.z) * (-QuarterCos(caster.yaw))

BesideRaySq(caster, q) ==
  (q.position.x - caster.position.x) * (q.position.x - caster.position.x)
    + (q.position.z - caster.position.z) * (q.position.z - caster.position.z)
    - AlongRay(caster, q) * AlongRay(caster, q)

\* the alive players other than the caster whose hitbox the horizontal ray
\* from the eye of the caster crosses in front of the caster
RayCrosses(caster, pl) ==
  {q \in Range(pl) :
     /\ q.id # caster.id
     /\ q.isAlive
     /\ AlongRay(caster, q) > 0
     /\ BesideRaySq(caster, q) <= PLAYER_RADIUS * PLAYER_RADIUS
     /\ 2 * (caster.position.y - q.position.y) + PLAYER_HEIGHT >= -PLAYER_HEIGHT
     /\ 2 * (caster.position.y - q.position.y) + PLAYER_HEIGHT <= PLAYER_HEIGHT}

\* the distance from the caster to the point where the ray enters a hitbox
EntryDistance(caster, q) ==
  AlongRay(caster, q)
    - Sqrt(PLAYER_RADIUS * PLAYER_RADIUS - BesideRaySq(caster, q))

Stale ==
  LET p1 == MapGet(atPlayers, CASTER)
  IN \/ /\ atAbility \in Abilities
        /\ (atTick - p1.abilities[atAbility].lastUsed) * 1000
             < ABILITY_COOLDOWNS[atAbility] * TICK_RATE
     \/ /\ atAbility \in {"jump", "launchJump"}
        /\ ~p1.isGrounded

StaleAttemptIsNoOp ==
  [][(atOp'.name = "attempt" /\ atPlayers # <<>> /\ Stale) =>
       /\ atOp'.returned = FALSE
       /\ atPlayers' = atPlayers
       /\ atProjectiles' = atProjectiles
       /\ atSent' = atSent]_vars

\* p1, in the air and with its launch-jump still cooling down from an
\* earlier launch, attempted another one
StaleAttemptIsNoOp_witness ==
  /\ atAbility = "launchJump"
  /\ atOp = [name |-> "attempt", returned |-> FALSE]
  /\ ~MapGet(atPlayers, CASTER).isGrounded
  /\ MapGet(atPlayers, CASTER).abilities["launchJump"].lastUsed # NEVER_USED
  /\ atTick - MapGet(atPlayers, CASTER).abilities["launchJump"].lastUsed
       < cooldownMsToTicks(LAUNCH_JUMP_COOLDOWN_MS)

\* ------------------------------------------------------------------------
\* C25: applyHit on a victim id that is not in the player map, or on a
\* victim that is already dead, returns null (no death event) and leaves
\* the health and the alive flag of every player as they were.
\* ------------------------------------------------------------------------
HitOnMissingOrDeadIsNoOp ==
  [][(/\ healthOp'.name = "hit"
      /\ \/ ~MapHas(healthPlayers, healthOp'.victimId)
         \/ ~MapGet(healthPlayers, healthOp'.victimId).isAlive) =>
       /\ ~healthOp'.died
       /\ Len(healthPlayers') = Len(healthPlayers)
       /\ \A i \in 1..Len(healthPlayers) :
            /\ healthPlayers'[i].id = healthPlayers[i].id
            /\ healthPlayers'[i].health = healthPlayers[i].health
            /\ healthPlayers'[i].isAlive = healthPlayers[i].isAlive]_vars

\* a hit on a player who was already dead returned no death event
HitOnMissingOrDeadIsNoOp_witness ==
  /\ healthOp.name = "hit"
  /\ ~healthOp.died
  /\ MapHas(healthPlayers, healthOp.victimId)
  /\ ~MapGet(healthPlayers, healthOp.victimId).isAlive

\* ------------------------------------------------------------------------
\* C26: stop() cancels every countdown timer that is active: when stop()
\* returns, no countdown interval of the phase manager is left scheduled, so
\* that no countdown update, transition to playing or match-start callback
\* can follow until a new countdown is started.
\* ------------------------------------------------------------------------
StopCancelsCountdown ==
  managerOp.name = "stop" => managerTimers = {}

\* stop() was called during a countdown and left no interval scheduled
StopCancelsCountdown_witness ==
  /\ managerOp.name = "stop"
  /\ managerOp.from = "countdown"
  /\ managerTimers = {}

\* ------------------------------------------------------------------------
\* C27: a broadcast reaches every open connection whatever the state of the
\* others, the tick that sends it runs to its end, and the player of a
\* connection that failed is removed: once the socket has emitted its events
\* no player that joined through it is left in the room.
\* ------------------------------------------------------------------------
\* the snapshot of a tick is delivered to every connection whose socket is
\* open and sound, whatever the state of the other sockets
BroadcastReachesOpenConnections ==
  [][cnOp'.name = "tick" =>
       \A i \in 1..Len(cnConnections) :
         LET ws == cnConnections[i].ws
         IN (cnSockets[ws].readyState = "OPEN" /\ ~cnSockets[ws].lossy) =>
              /\ Len(cnInbox'[ws]) > Len(cnInbox[ws])
              /\ cnInbox'[ws][Len(cnInbox'[ws])] =
                   [type |-> "GAME_STATE", tick |-> cnTick']]_vars

FailedConnectionLosesPlayer ==
  \A k \in 1..Len(cnRoster) :
    \E i \in 1..Len(cnConnections) :
      /\ cnConnections[i].id = cnRoster[k]
      /\ \/ cnSockets[cnConnections[i].ws].readyState = "OPEN"
         \/ cnSockets[cnConnections[i].ws].pending # <<>>

\* a socket failed, a snapshot went to the other connection alone, and the
\* close event removed the player of the failed one
FailedConnectionLosesPlayer_witness ==
  /\ cnOp.name = "disconnect"
  /\ cnOp.removed # NULL
  /\ cnOp.removed \notin Range(cnRoster)
  /\ cnInbox[cnOp.ws] = <<[type |-> "WELCOME", tick |-> 0]>>
  /\ \E ws \in Sockets \ {cnOp.ws} :
       /\ cnSockets[ws].readyState = "OPEN"
       /\ [type |-> "GAME_STATE", tick |-> 1] \in Range(cnInbox[ws])

\* ------------------------------------------------------------------------
\* C28: a player that is grounded with zero velocity and is resolved once
\* more against the same geometry stays at the same height, grounded, with
\* zero vertical velocity, however often this is repeated.
\* ------------------------------------------------------------------------
LandingIsIdempotent ==
  [][(/\ laCount' = laCount + 1
      /\ laGrounded
      /\ laVelocity = [x |-> 0, y |-> 0, z |-> 0]) =>
       /\ laPosition'.y = laPosition.y
       /\ laGrounded'
       /\ laVelocity'.y = 0]_vars

\* a player that landed on a platform was resolved twice more
LandingIsIdempotent_witness ==
  /\ laSystem = "arena"
  /\ laCount = MaxResolves
  /\ laGrounded
  /\ laPosition.y > GROUND_LEVEL + playerHeight \div 2

\* ------------------------------------------------------------------------
\* C29: a tick of a match applies inputs, then movement, then projectiles
\* and their hits, then player overlap, then the cooldown update of every
\* ability, then health regeneration, and only then takes the snapshot: in
\* the snapshot of such a tick every ability of every player is ready when
\* its cooldown has elapsed at that tick, and a living player below full
\* health who was last damaged at least delayTicks ticks before has more
\* health than the tick before.  (In this match only p1's ability damages,
\* so p2 was last damaged no later than p1's last use.)
\* ------------------------------------------------------------------------
TickSnapshotReflectsEveryStage ==
  [][(abOp'.name = "tick" /\ abOp'.from = "playing") =>
       /\ \A i \in 1..Len(abPlayers'), a \in Abilities :
            abTick' - abPlayers'[i].abilities[a].lastUsed
                >= cooldownMsToTicks(ABILITY_COOLDOWNS[a])
              => abPlayers'[i].abilities[a].ready
       /\ (/\ MapHas(abPlayers, TARGET)
           /\ MapGet(abPlayers, TARGET).isAlive
           /\ MapGet(abPlayers, TARGET).health < MAX_HEALTH
           /\ MapGet(abPlayers', CASTER).abilities[abAbility].lastUsed
                # NEVER_USED
           /\ abTick' - MapGet(abPlayers', CASTER).abilities[abAbility].lastUsed
                >= delayTicks)
          => MapGet(abPlayers', TARGET).health
               > MapGet(abPlayers, TARGET).health]_vars

\* a tick of a match was taken at which p2, hit by a nova blast delayTicks
\* ticks before and not since, was due to regenerate
TickSnapshotReflectsEveryStage_witness ==
  /\ abOp.name = "tick"
  /\ abOp.from = "playing"
  /\ abAbility = "novaBlast"
  /\ MapHas(abPlayers, TARGET)
  /\ MapGet(abPlayers, TARGET).isAlive
  /\ MapGet(abPlayers, TARGET).health = MAX_HEALTH - NOVA_BLAST_DAMAGE
  /\ abTick - MapGet(abPlayers, CASTER).abilities["novaBlast"].lastUsed
       >= delayTicks

\* ------------------------------------------------------------------------
\* C30: during an uninterrupted countdown (the phase is countdown and the
\* interval startCountdown scheduled is still held) every firing finds that
\* one interval scheduled and no other, so that firings are one second
\* apart; it lowers the remaining seconds by one, to a value that is not
\* negative, and broadcasts exactly that value in one COUNTDOWN_UPDATE while
\* it is above zero: the values go COUNTDOWN_SECONDS, COUNTDOWN_SECONDS - 1,
\* ..., 1, one per elapsed second.
\* ------------------------------------------------------------------------
CountdownValuesDescend ==
  [][(/\ managerOp'.name = "timerFire"
      /\ manager.phase = "countdown"
      /\ manager.countdownIntervalId # NO_TIMER) =>
       /\ {t.id : t \in managerTimers} = {manager.countdownIntervalId}
       /\ manager'.countdownSeconds = manager.countdownSeconds - 1
       /\ manager'.countdownSeconds = COUNTDOWN_SECONDS - firings'
       /\ manager'.countdownSeconds >= 0
       /\ IF manager'.countdownSeconds > 0
          THEN managerSent' =
                 <<[type |-> "COUNTDOWN_UPDATE",
                    secondsRemaining |-> manager'.countdownSeconds]>>
          ELSE \A i \in 1..Len(managerSent') :
                 managerSent'[i].type # "COUNTDOWN_UPDATE"]_vars

\* the last value of a countdown that no call interrupted was broadcast
CountdownValuesDescend_witness ==
  /\ managerOp.name = "timerFire"
  /\ manager.phase = "countdown"
  /\ manager.countdownIntervalId # NO_TIMER
  /\ firings = COUNTDOWN_SECONDS - 1
  /\ managerSent = <<[type |-> "COUNTDOWN_UPDATE", secondsRemaining |-> 1]>>

\* ------------------------------------------------------------------------
\* C31: exactly one countdown interval is scheduled while the phase is
\* countdown and none in every other phase, after any sequence of calls and
\* timer firings: startCountdown never leaves an earlier interval running.
\* ------------------------------------------------------------------------
OneTimerWhileCountdown ==
  Cardinality(managerTimers) = IF manager.phase = "countdown" THEN 1 ELSE 0

\* a game over in the playing phase started a countdown, and its interval
\* is the only one scheduled
OneTimerWhileCountdown_witness ==
  /\ managerOp.name = "handleGameOver"
  /\ managerOp.from = "playing"
  /\ manager.phase = "countdown"
  /\ Cardinality(managerTimers) = 1

\* ------------------------------------------------------------------------
\* C32: between operations, whenever the phase is playing at least two
\* players of the live set are alive.
\* ------------------------------------------------------------------------
AlivePlayers(pl) == {i \in 1..Len(pl) : pl[i].isAlive}

TwoAliveWhilePlaying ==
  phase = "playing" => Cardinality(AlivePlayers(players)) >= 2

\* a tick of a match of three killed one player and the match goes on
TwoAliveWhilePlaying_witness ==
  /\ op.name = "tick"
  /\ phase = "playing"
  /\ Len(players) = 3
  /\ Cardinality(AlivePlayers(players)) = 2

\* ------------------------------------------------------------------------
\* C33: whenever the phase is countdown at least MIN_PLAYERS_TO_START
\* players are connected, also when the countdown was started by the game
\* over a disconnect caused.
\* ------------------------------------------------------------------------
CountdownHasMinimumPlayers ==
  phase = "countdown" => Len(connectedPlayers) >= MIN_PLAYERS_TO_START

\* a disconnect during a match of three left one player alive and started
\* a countdown with the minimum connected
CountdownHasMinimumPlayers_witness ==
  /\ op.name = "removePlayer"
  /\ op.from = "playing"
  /\ phase = "countdown"
  /\ Len(connectedPlayers) = MIN_PLAYERS_TO_START

\* ------------------------------------------------------------------------
\* C34: a handler broadcasts at most one GAME_OVER, and only while a match
\* is being played, which it ends: there is at most one per match, however
\* many players die or leave in the same tick.  The player it names was
\* alive when the handler began and is in the live set, and every other
\* player of the live set is dead.
\* ------------------------------------------------------------------------
GameOvers(messages) ==
  SelectSeq(messages, LAMBDA message : message.type = "GAME_OVER")

Deaths(messages) ==
  SelectSeq(messages, LAMBDA message : message.type = "PLAYER_DIED")

OneGameOverPerMatch ==
  [][pjOp'.name \in {"tick", "removePlayer"} =>
       LET overs == GameOvers(pjOp'.sent)
       IN /\ Len(overs) <= 1
          /\ Len(overs) = 1 =>
               /\ pjPhase = "playing"
               /\ pjPhase' = "countdown"
               /\ MapHas(pjPlayers, overs[1].winnerId)
               /\ MapGet(pjPlayers, overs[1].winnerId).isAlive
               /\ MapHas(pjPlayers', overs[1].winnerId)
               /\ \A i \in 1..Len(pjPlayers') :
                    pjPlayers'[i].id # overs[1].winnerId
                      => ~pjPlayers'[i].isAlive]_vars

\* two players of a match of three died in one tick, and one GAME_OVER was
\* broadcast
OneGameOverPerMatch_witness ==
  /\ pjOp.name = "tick"
  /\ Len(pjPlayers) = 3
  /\ Len(GameOvers(pjOp.sent)) = 1
  /\ Len(Deaths(pjOp.sent)) >= 2

\* ------------------------------------------------------------------------
\* C35: once a tick has declared game over it applies no further death, so
\* no PLAYER_DIED follows the GAME_OVER among the messages of the tick and
\* the declared winner is alive in the snapshot of the tick.
\* ------------------------------------------------------------------------
WinnerSurvivesTick ==
  (pjOp.name = "tick" /\ GameOvers(pjOp.sent) # <<>>) =>
    LET k == CHOOSE i \in 1..Len(pjOp.sent) : pjOp.sent[i].type = "GAME_OVER"
        winnerId == pjOp.sent[k].winnerId
    IN /\ \A j \in (k + 1)..Len(pjOp.sent) : pjOp.sent[j].type # "PLAYER_DIED"
       /\ MapHas(pjPlayers, winnerId)
       /\ MapGet(pjPlayers, winnerId).isAlive

\* a tick declared game over and its winner is alive in the snapshot, hit
\* in that tick or not
WinnerSurvivesTick_witness ==
  /\ pjOp.name = "tick"
  /\ GameOvers(pjOp.sent) # <<>>
  /\ pjPhase = "countdown"
  /\ Cardinality({i \in 1..Len(pjPlayers) : pjPlayers[i].isAlive}) = 1
  /\ \E i \in 1..Len(pjPlayers) :
       /\ pjPlayers[i].isAlive
       /\ pjPlayers[i].id = GameOvers(pjOp.sent)[1].winnerId
       /\ pjPlayers[i].health < MAX_HEALTH

\* ------------------------------------------------------------------------
\* C36: an input received while the phase is not playing is never applied.
\* While the phase is not playing no step applies an input to any player,
\* and whenever a step makes the phase playing every queue is empty after
\* it: what was queued outside a match is gone when the next match starts.
\* ------------------------------------------------------------------------
InputOutsideMatchNeverApplied ==
  [][iqPhase # "playing" =>
       /\ \A id \in InputIds :
            iqApplied'[id] = iqApplied[id] \/ iqApplied'[id] = <<>>
       /\ iqPhase' = "playing" =>
            \A i \in 1..Len(iqPending') : iqPending'[i].inputs = <<>>]_vars

\* a match started after inputs were received and none was ever applied or
\* is still queued
InputOutsideMatchNeverApplied_witness ==
  /\ iqOp.name = "startNewGame"
  /\ iqPhase = "playing"
  /\ Received(InputIds) = MaxInputs
  /\ \A id \in InputIds : iqApplied[id] = <<>>
  /\ \A i \in 1..Len(iqPlayers) : iqPlayers[i].lastProcessedInput = 0
  /\ \A i \in 1..Len(iqPending) : iqPending[i].inputs = <<>>

\* ------------------------------------------------------------------------
\* C37: a tick of a match hands no input of a player who is dead, or absent
\* from the live set, to applyInput: the player record stays as it is, and
\* the queue is empty after the tick, so the inputs are not applied later
\* either.
\* ------------------------------------------------------------------------
DeadPlayerInputsDiscarded ==
  [][(iqOp'.name = "tick" /\ iqPhase = "playing") =>
       \A i \in 1..Len(iqPending) :
         LET id == iqPending[i].id
         IN (~MapHas(iqPlayers, id) \/ ~MapGet(iqPlayers, id).isAlive) =>
              /\ iqApplied'[id] = iqApplied[id]
              /\ MapHas(iqPlayers, id) =>
                   /\ MapHas(iqPlayers', id)
                   /\ MapGet(iqPlayers', id) = MapGet(iqPlayers, id)
              /\ MapHas(iqPending', id)
              /\ MapGet(iqPending', id).inputs = <<>>]_vars

\* a tick of a match found inputs queued for a dead player, while it
\* applied those of a living one
DeadPlayerInputsDiscarded_witness ==
  /\ iqOp.name = "tick"
  /\ iqOp.skipped
  /\ \E id \in InputIds :
       /\ MapHas(iqPlayers, id)
       /\ MapGet(iqPlayers, id).isAlive
       /\ MapGet(iqPlayers, id).lastProcessedInput # 0
  /\ \A i \in 1..Len(iqPending) : iqPending[i].inputs = <<>>

\* ------------------------------------------------------------------------
\* C38: after a connection has closed, no player that joined through it is
\* left in the room, however many JOIN_GAME messages it sent.
\* ------------------------------------------------------------------------
ClosedConnectionLeavesNoPlayer ==
  \A ws \in DOMAIN cnSockets :
    cnSockets[ws].readyState = "CLOSED" =>
      \A i \in 1..Len(cnConnections) :
        cnConnections[i].ws = ws => cnConnections[i].id \notin Range(cnRoster)

\* a connection that joined once has closed and its player has left the
\* room, while the player of another connection stays
ClosedConnectionLeavesNoPlayer_witness ==
  /\ cnOp.name = "disconnect"
  /\ cnOp.removed # NULL
  /\ cnSockets[cnOp.ws].readyState = "CLOSED"
  /\ cnOp.removed \notin Range(cnRoster)
  /\ \A i \in 1..Len(cnConnections) : cnConnections[i].ws # cnOp.ws
  /\ cnRoster # <<>>

\* ------------------------------------------------------------------------
\* C40: removePlayer is invoked at most once for a joined player: every
\* invocation is for a player that is still in the room and takes the
\* player out of it (an id is never given twice), also when a socket emits
\* both 'error' and 'close', in either order.
\* ------------------------------------------------------------------------
RemovePlayerAtMostOnce ==
  [][(cnOp'.name = "disconnect" /\ cnOp'.invoked) =>
       /\ cnOp'.removed \in Range(cnRoster)
       /\ cnOp'.removed \notin Range(cnRoster')]_vars

\* the second event of a socket that had joined found no player to remove
RemovePlayerAtMostOnce_witness ==
  /\ cnOp.name = "disconnect"
  /\ ~cnOp.invoked
  /\ cnSockets[cnOp.ws].pending = <<>>
  /\ [type |-> "WELCOME", tick |-> 0] \in Range(cnInbox[cnOp.ws])

\* ------------------------------------------------------------------------
\* C39: with the countdown interval firing as long as it is scheduled, a
\* room that is in countdown eventually leaves it (the statement as given),
\* and a room in countdown eventually leaves it unless stop() has cleared
\* its countdown interval (the statement that holds).
\* ------------------------------------------------------------------------
CountdownEnds == (phase = "countdown") ~> (phase # "countdown")

CountdownEndsUnlessStopped ==
  (phase = "countdown" /\ timers # {}) ~>
    (phase # "countdown" \/ timers = {})

\* the last firing of a countdown started a match
CountdownEndsUnlessStopped_witness ==
  /\ op.name = "countdownFire"
  /\ phase = "playing"
  /\ timers = {}
  /\ running
====
